---- MODULE Spec2Model ----
(***************************************************************************)
(* Verification model of the ultimate-recovery engine: the rust-recovery   *)
(* parallel scanner and its progress bus, the accelerator's hot-fragment   *)
(* polling loop, the checkpoint writer and its background agent, resume    *)
(* validation, the DP stream assembler and the exFAT cluster-chain walker. *)
(*                                                                         *)
(* Every sub-system has its own specification over the shared variables;   *)
(* the variables of the other sub-systems stay at their idle value.        *)
(* Byte quantities are scaled down: one model byte stands for one block.   *)
(* Confidences are in tenths (priority / 10 in the code), scores are       *)
(* integers.                                                               *)
(***************************************************************************)
EXTENDS Integers, Sequences, FiniteSets, TLC

(***************************************************************************)
(* Bounds of the model                                                     *)
(***************************************************************************)
\* largest image, in model bytes, the scanner is given
MaxDisk == 3
\* capacity of the bounded progress channel (mpsc::channel(100) in main.rs)
ChannelCapacity == 1
\* largest rayon pool
MaxThreads == 2
\* chunks of the image the accelerator scans
AccChunks == 3
\* checkpoints a run creates
MaxSaves == 3
\* capacity of the manager's request queue (mpsc::channel(32) in checkpoint.rs)
MgrQueue == 2
\* bytes of the longest image validate_resume is given
MaxImage == 3
\* leading bytes of the image that enter its fingerprint (HASH_READ_LIMIT, scaled)
HASH_READ_LIMIT == 2
\* fragments handed to the stream solver
MaxFrags == 3
\* the largest u32 (0xFFFFFFFF, scaled); end-of-chain values start 8 below it
U32_MAX == 14
\* the cap on extracted bytes (250 MiB in exfat.rs, scaled)
MAX_EXTRACT_SIZE == 3
\* the largest u64 (scaled)
U64_MAX == 7
\* largest chunk_size and overlap_size of a ScanConfig written as a struct literal
MaxChunk == 3
\* chunks whose links the end of a scan collects
MaxFound == 3
\* bytes of the longest chunk that is scored
MaxChunkBytes == 3
\* block_size of scan_chunk_with_matcher (64, scaled)
BLOCK_SIZE == 2
\* largest secondary_count of an entry set
MaxSecondary == 3
\* bytes of the longest haystack and of the longest needle
MaxHaystack == 7
MaxNeedle == 3
\* needles shorter than this are searched by the scalar code (16, scaled)
SIMD_MIN_NEEDLE == 2
\* bytes of one AVX2 register (32, scaled) and of one SSE register (16, scaled)
AVX_WIDTH == 2
SSE_WIDTH == 1

(***************************************************************************)
(* Generic helpers                                                         *)
(***************************************************************************)
Min(a, b) == IF a < b THEN a ELSE b
Max(a, b) == IF a > b THEN a ELSE b

Range(s) == {s[i] : i \in DOMAIN s}

\* all sequences listing every element of the finite set S exactly once
Orderings(S) ==
    {s \in [1..Cardinality(S) -> S] : \A i, j \in 1..Cardinality(S) : i # j => s[i] # s[j]}

RECURSIVE Flatten(_)
Flatten(ss) == IF ss = <<>> THEN <<>> ELSE Head(ss) \o Flatten(Tail(ss))

RECURSIVE Reverse(_)
Reverse(s) == IF s = <<>> THEN <<>> ELSE Append(Reverse(Tail(s)), Head(s))

\* links.retain(|l| l.confidence >= min_confidence)
RECURSIVE RetainConfident(_, _)
RetainConfident(s, min_confidence) ==
    IF s = <<>> THEN <<>>
    ELSE IF Head(s).confidence >= min_confidence
         THEN <<Head(s)>> \o RetainConfident(Tail(s), min_confidence)
         ELSE RetainConfident(Tail(s), min_confidence)

\* a sequence left in the order it came in
KeepOrder(s) == s

\* slice::sort_by_key(|x| x.offset): a stable sort on the offset field
RECURSIVE InsertByOffset(_, _)
InsertByOffset(sorted, x) ==
    IF sorted = <<>> THEN <<x>>
    ELSE IF Head(sorted).offset <= x.offset
         THEN <<Head(sorted)>> \o InsertByOffset(Tail(sorted), x)
         ELSE <<x>> \o sorted

RECURSIVE SortByOffset(_)
SortByOffset(s) ==
    IF s = <<>> THEN <<>>
    ELSE InsertByOffset(SortByOffset(SubSeq(s, 1, Len(s) - 1)), s[Len(s)])

VARIABLES
    \* ---- rust-recovery ParallelScanner::scan_streaming and its progress bus
    config,        \* ScanConfig
    disk_size,     \* disk.size()
    start_offset,  \* start
    pool_size,     \* threads of the rayon pool
    scan_pc,       \* position of the scan thread: "init", "par", "done"
    chunks,        \* the chunk list of the parallel iterator
    pc,            \* position of every per-chunk task
    outcome,       \* what catch_unwind returned for every chunk
    chan,          \* events buffered in the progress channel
    rx,            \* the receiver: "open", "stalled" (attached, not receiving), "closed"
    delivered,     \* events the consumer has received
    scan_result,   \* Running, or the ScanResult returned as Ok
    \* ---- accelerator RustParallelScanner::scan_streaming (lib.rs)
    hot_cb,        \* hot_fragment_cb is Some
    acc_task,      \* position of every per-chunk task of the scan thread
    acc_finished,  \* handle.is_finished()
    hchan,         \* fragments buffered in the std mpsc channel
    acc_pc,        \* position of the polling loop
    cb_calls,      \* fragments hot_fragment_cb was called with
    \* ---- checkpoint.rs: save_checkpoint_blocking and CheckpointManager
    ck_backup,     \* the backup flag
    files,         \* the checkpoint file, its .tmp and its .bak sibling
    save_pc,       \* position inside save_checkpoint_blocking
    save_ck,       \* the checkpoint being saved
    save_ret,      \* what the last save returned
    committed,     \* the checkpoint of the last save that returned Ok
    next_ck,       \* checkpoints created so far
    mq,            \* the manager's request queue
    agent_pc,      \* the background agent: "recv", "saving", "stopped"
    cur_req,       \* the request the agent is serving
    shutdown_ret,  \* what shutdown() returned
    enq_log,       \* save requests enqueued ahead of the shutdown request
    processed,     \* saves the agent completed, with their results
    responses,     \* results handed back to awaiting callers
    \* ---- checkpoint.rs: validate_resume
    rv_image_path, \* the image path handed to validate_resume
    rv_checkpoint, \* the checkpoint handed to validate_resume
    rv_image,      \* the image file at that path
    rv_result,     \* what validate_resume returned
    \* ---- stream_solver.rs: assemble_streams_with_weights
    sv_fragments,  \* the fragments handed in
    sv_weights,    \* StreamScoringWeights
    sv_max_streams,\* max_streams: None or Some(cap)
    sv_remaining,  \* remaining
    sv_streams,    \* streams
    sv_pc,         \* "loop" while the while loop runs, then "done"
    sv_pool,       \* the sorted pool of the last find_best_path
    sv_best,       \* best_score of the last find_best_path
    \* ---- exfat.rs: extract_file_content (rust-recovery and accelerator)
    ex_impl,       \* which crate's extract_file_content runs
    ex_data_len,   \* data.len()
    ex_params,     \* ExFatBootParams
    ex_fat,        \* the FAT entries stored in the image
    ex_first_cluster,
    ex_file_size,
    ex_no_fat_chain,
    ex_pc,         \* "call", "loop", "done"
    ex_remaining,  \* remaining
    ex_cluster,    \* cluster
    ex_visited,    \* visited (rust-recovery)
    ex_chain_len,  \* chain_len (accelerator)
    ex_content,    \* content, each byte named by its offset in the image
    \* ---- disk.rs: DiskImage::get_slice
    gs_size,       \* self.size
    gs_offset,     \* offset
    gs_len,        \* len
    gs_result,     \* what get_slice returned
    \* ---- the chunk list of scan_streaming / scan_file_streaming
    ch_impl,     \* "rust-recovery" or "accelerator"
    ch_size,     \* size of the image
    ch_start,    \* start offset
    ch_config,   \* self.config: chunk_size and overlap_size
    ch_reverse,  \* reverse
    ch_nodes,    \* NUMA nodes detected (0: no topology)
    ch_pc,       \* "idle", "start", "listed"
    ch_chunks,   \* chunks, after the optional reversal
    \* ---- the end of scan_streaming: flatten, deduplicate, filter, sort
    dd_found,    \* the links scan_chunk_with_matcher finds, per chunk, by ascending offset
    dd_config,   \* self.config: deduplicate and min_confidence
    dd_reverse,  \* reverse
    dd_pc,       \* "idle", "collected", "deduped", "done"
    dd_links,    \* links
    \* ---- hot fragments: scan_chunk_with_matcher / scan_file_streaming
    hf_impl,           \* "rust-recovery" or "accelerator"
    hf_chunk_data,     \* chunk_data
    hf_youtube_count,  \* links.len()
    hf_target_score,   \* target_score
    hf_avx2,           \* is_x86_feature_detected!("avx2")
    hf_hot_cb,         \* hot_fragment_cb is given (accelerator)
    hf_pc,             \* "idle", "scan", "done"
    hf_hot,            \* a HotFragment was produced
    hf_json_markers,   \* json_markers of the fragment
    hf_cyrillic_count, \* cyrillic_count behind its cyrillic_density
    \* ---- exfat.rs: find_boot_sector
    bp_impl,      \* "rust-recovery" or "accelerator"
    bp_data_len,  \* data.len()
    bp_sectors,   \* the boot-sector fields the image holds at offsets 0 and 512
    bp_pc,        \* "idle", "find", "done"
    bp_result,    \* what find_boot_sector returned
    \* ---- exfat.rs: parse_entry_set
    es_impl,      \* "rust-recovery" or "accelerator"
    es_data_len,  \* data.len()
    es_entries,   \* the fields of the 32-byte entries of data
    es_pc,        \* "idle", "parse", "done"
    es_result,    \* what parse_entry_set returned
    \* ---- simd_search.rs: find_pattern_simd
    fp_haystack,  \* haystack
    fp_needle,    \* needle
    fp_cpu,       \* the instruction set detected: "avx2", "sse4.2" or "none"
    fp_pc,        \* "idle", "call", "done"
    fp_result     \* what find_pattern_simd returned

scanVars == <<config, disk_size, start_offset, pool_size, scan_pc, chunks, pc,
              outcome, chan, rx, delivered, scan_result>>

accVars == <<hot_cb, acc_task, acc_finished, hchan, acc_pc, cb_calls>>

ckptVars == <<ck_backup, files, save_pc, save_ck, save_ret, committed, next_ck>>

mgrVars == <<mq, agent_pc, cur_req, shutdown_ret, enq_log, processed, responses>>

resumeVars == <<rv_image_path, rv_checkpoint, rv_image, rv_result>>

solverVars == <<sv_fragments, sv_weights, sv_max_streams, sv_remaining,
                sv_streams, sv_pc, sv_pool, sv_best>>

exfatVars == <<ex_impl, ex_data_len, ex_params, ex_fat, ex_first_cluster,
               ex_file_size, ex_no_fat_chain, ex_pc, ex_remaining, ex_cluster,
               ex_visited, ex_chain_len, ex_content>>

sliceVars == <<gs_size, gs_offset, gs_len, gs_result>>

chunkVars == <<ch_impl, ch_size, ch_start, ch_config, ch_reverse, ch_nodes, ch_pc,
                ch_chunks>>

dedupVars == <<dd_found, dd_config, dd_reverse, dd_pc, dd_links>>

hotVars == <<hf_impl, hf_chunk_data, hf_youtube_count, hf_target_score, hf_avx2,
              hf_hot_cb, hf_pc, hf_hot, hf_json_markers, hf_cyrillic_count>>

bootVars == <<bp_impl, bp_data_len, bp_sectors, bp_pc, bp_result>>

entryVars == <<es_impl, es_data_len, es_entries, es_pc, es_result>>

findVars == <<fp_haystack, fp_needle, fp_cpu, fp_pc, fp_result>>

vars == <<scanVars, accVars, ckptVars, mgrVars, resumeVars, solverVars, exfatVars,
          sliceVars, chunkVars, dedupVars, hotVars, bootVars, entryVars, findVars>>

\* what the actions of one sub-system leave alone
nonScanVars == <<accVars, ckptVars, mgrVars, resumeVars, solverVars, exfatVars,
                 sliceVars, chunkVars, dedupVars, hotVars, bootVars, entryVars,
                 findVars>>
nonAccVars == <<scanVars, ckptVars, mgrVars, resumeVars, solverVars, exfatVars,
                sliceVars, chunkVars, dedupVars, hotVars, bootVars, entryVars,
                findVars>>
nonCkptVars == <<scanVars, accVars, resumeVars, solverVars, exfatVars, sliceVars,
                 chunkVars, dedupVars, hotVars, bootVars, entryVars, findVars>>
nonResumeVars == <<scanVars, accVars, ckptVars, mgrVars, solverVars, exfatVars,
                   sliceVars, chunkVars, dedupVars, hotVars, bootVars, entryVars,
                   findVars>>
nonExfatVars == <<scanVars, accVars, ckptVars, mgrVars, resumeVars, solverVars,
                  sliceVars, chunkVars, dedupVars, hotVars, bootVars, entryVars,
                  findVars>>
nonSliceVars == <<scanVars, accVars, ckptVars, mgrVars, resumeVars, solverVars,
                  exfatVars, chunkVars, dedupVars, hotVars, bootVars, entryVars,
                  findVars>>
nonChunkVars == <<scanVars, accVars, ckptVars, mgrVars, resumeVars, solverVars,
                  exfatVars, sliceVars, dedupVars, hotVars, bootVars, entryVars,
                  findVars>>
nonDedupVars == <<scanVars, accVars, ckptVars, mgrVars, resumeVars, solverVars,
                  exfatVars, sliceVars, chunkVars, hotVars, bootVars, entryVars,
                  findVars>>
nonHotVars == <<scanVars, accVars, ckptVars, mgrVars, resumeVars, solverVars, exfatVars,
                sliceVars, chunkVars, dedupVars, bootVars, entryVars, findVars>>
nonBootVars == <<scanVars, accVars, ckptVars, mgrVars, resumeVars, solverVars,
                 exfatVars, sliceVars, chunkVars, dedupVars, hotVars, entryVars,
                 findVars>>
nonEntryVars == <<scanVars, accVars, ckptVars, mgrVars, resumeVars, solverVars,
                  exfatVars, sliceVars, chunkVars, dedupVars, hotVars, bootVars,
                  findVars>>
nonFindVars == <<scanVars, accVars, ckptVars, mgrVars, resumeVars, solverVars,
                  exfatVars, sliceVars, chunkVars, dedupVars, hotVars, bootVars,
                  entryVars>>
nonSolverVars == <<scanVars, accVars, ckptVars, mgrVars, resumeVars, exfatVars,
                   sliceVars, chunkVars, dedupVars, hotVars, bootVars, entryVars,
                   findVars>>

None == [some |-> FALSE, value |-> 0]
Some(v) == [some |-> TRUE, value |-> v]

(***************************************************************************)
(* Idle values: a sub-system a specification does not exercise             *)
(***************************************************************************)
\* scan_streaming has not returned yet
Running == [state |-> "running"]

\* the scanner sub-system is not in use
ScanIdle ==
    /\ config = <<>>
    /\ disk_size = 0
    /\ start_offset = 0
    /\ pool_size = 0
    /\ scan_pc = "idle"
    /\ chunks = <<>>
    /\ pc = <<>>
    /\ outcome = <<>>
    /\ chan = <<>>
    /\ rx = "idle"
    /\ delivered = <<>>
    /\ scan_result = Running

\* the polling sub-system is not in use
AccIdle ==
    /\ hot_cb = FALSE
    /\ acc_task = <<>>
    /\ acc_finished = FALSE
    /\ hchan = <<>>
    /\ acc_pc = "idle"
    /\ cb_calls = <<>>

\* a file that does not exist
Absent == [ck |-> 0, st |-> "absent"]

\* no request, no reply
NoRequest == [kind |-> "None"]

\* the checkpoint writer is not in use
CkptIdle ==
    /\ ck_backup = FALSE
    /\ files = <<>>
    /\ save_pc = "idle"
    /\ save_ck = 0
    /\ save_ret = "none"
    /\ committed = 0
    /\ next_ck = 0

\* the checkpoint manager is not in use
MgrIdle ==
    /\ mq = <<>>
    /\ agent_pc = "idle"
    /\ cur_req = NoRequest
    /\ shutdown_ret = "none"
    /\ enq_log = <<>>
    /\ processed = <<>>
    /\ responses = {}

\* validate_resume is not in use
ResumeIdle ==
    /\ rv_image_path = ""
    /\ rv_checkpoint = <<>>
    /\ rv_image = <<>>
    /\ rv_result = NoRequest

\* the stream solver is not in use
SolverIdle ==
    /\ sv_fragments = <<>>
    /\ sv_weights = <<>>
    /\ sv_max_streams = None
    /\ sv_remaining = <<>>
    /\ sv_streams = <<>>
    /\ sv_pc = "idle"
    /\ sv_pool = <<>>
    /\ sv_best = <<>>

\* extract_file_content is not in use
ExfatIdle ==
    /\ ex_impl = "none"
    /\ ex_data_len = 0
    /\ ex_params = <<>>
    /\ ex_fat = <<>>
    /\ ex_first_cluster = 0
    /\ ex_file_size = 0
    /\ ex_no_fat_chain = FALSE
    /\ ex_pc = "idle"
    /\ ex_remaining = 0
    /\ ex_cluster = 0
    /\ ex_visited = {}
    /\ ex_chain_len = 0
    /\ ex_content = <<>>

\* get_slice is not in use
SliceIdle ==
    /\ gs_size = 0
    /\ gs_offset = 0
    /\ gs_len = 0
    /\ gs_result = NoRequest

\* no chunk list is being built
ChunkIdle ==
    /\ ch_impl = "none"
    /\ ch_size = 0
    /\ ch_start = 0
    /\ ch_config = <<>>
    /\ ch_reverse = FALSE
    /\ ch_nodes = 0
    /\ ch_pc = "idle"
    /\ ch_chunks = <<>>

\* no scan is being finished
DedupIdle ==
    /\ dd_found = <<>>
    /\ dd_config = <<>>
    /\ dd_reverse = FALSE
    /\ dd_pc = "idle"
    /\ dd_links = <<>>

\* no chunk is being scored
HotIdle ==
    /\ hf_impl = "none"
    /\ hf_chunk_data = <<>>
    /\ hf_youtube_count = 0
    /\ hf_target_score = 0
    /\ hf_avx2 = FALSE
    /\ hf_hot_cb = FALSE
    /\ hf_pc = "idle"
    /\ hf_hot = FALSE
    /\ hf_json_markers = 0
    /\ hf_cyrillic_count = 0

\* find_boot_sector is not in use
BootIdle ==
    /\ bp_impl = "none"
    /\ bp_data_len = 0
    /\ bp_sectors = <<>>
    /\ bp_pc = "idle"
    /\ bp_result = None

\* parse_entry_set is not in use
EntryIdle ==
    /\ es_impl = "none"
    /\ es_data_len = 0
    /\ es_entries = <<>>
    /\ es_pc = "idle"
    /\ es_result = None

\* find_pattern_simd is not in use
FindIdle ==
    /\ fp_haystack = <<>>
    /\ fp_needle = <<>>
    /\ fp_cpu = "none"
    /\ fp_pc = "idle"
    /\ fp_result = None

(***************************************************************************)
(* rust-recovery: scanner/parallel.rs                                      *)
(***************************************************************************)

\* create_chunks over data of length data_len
RECURSIVE create_chunks_from(_, _, _, _)
create_chunks_from(offset, data_len, cfg, start) ==
    IF offset >= data_len THEN <<>>
    ELSE LET chunk_end == Min(offset + cfg.chunk_size + cfg.overlap_size, data_len)
             this == IF offset < chunk_end
                     THEN <<[offset |-> start + offset, size |-> chunk_end - offset]>>
                     ELSE <<>>
         IN  IF cfg.chunk_size = 0 THEN this
             ELSE this \o create_chunks_from(offset + cfg.chunk_size, data_len, cfg, start)

create_chunks(data_len, cfg, start) == create_chunks_from(0, data_len, cfg, start)

\* is_better_link with >= in place of >
is_better_or_equal(new, existing) ==
    IF new.title /\ ~existing.title THEN TRUE
    ELSE IF ~new.title /\ existing.title THEN FALSE
    ELSE new.confidence >= existing.confidence

\* is_better_link(new, existing)
is_better_link(new, existing) ==
    IF new.title /\ ~existing.title THEN TRUE
    ELSE IF ~new.title /\ existing.title THEN FALSE
    ELSE new.confidence > existing.confidence

\* the HashMap best_links after the first n links were drained into it
RECURSIVE best_links(_, _)
best_links(links, n) ==
    IF n = 0 THEN [v \in {} |-> 0]
    ELSE LET m == best_links(links, n - 1)
             link == links[n]
         IN  IF link.video_id \in DOMAIN m
             THEN IF is_better_link(link, m[link.video_id])
                  THEN [m EXCEPT ![link.video_id] = link]
                  ELSE m
             ELSE [v \in DOMAIN m \cup {link.video_id} |->
                      IF v = link.video_id THEN link ELSE m[v]]

\* deduplicate_links: the lists links can hold afterwards; into_values() yields
\* the map's values in the arbitrary order of the hash map
deduplicate_links(links) ==
    LET m == best_links(links, Len(links))
    IN  {[i \in 1..Len(ord) |-> m[ord[i]]] : ord \in Orderings(DOMAIN m)}

\* lines 237-258 of scan_streaming: the possible final ScanResults
ScanResults(all_links, cfg, data_len, dsize, start) ==
    LET links == Flatten(all_links)
        deduped == IF cfg.deduplicate THEN deduplicate_links(links) ELSE {links}
    IN  {[state |-> "ok",
          links |-> SortByOffset(IF cfg.min_confidence > 0
                                       THEN RetainConfident(d, cfg.min_confidence)
                                       ELSE d),
          bytes_scanned |-> Min(data_len, dsize - start)] : d \in deduped}

\* ScanResult::default()
DefaultScanResult == [state |-> "ok", links |-> <<>>, bytes_scanned |-> 0]


\* ScanProgress events
ChunkCompleted(off) == [kind |-> "ChunkCompleted", arg |-> off]
BytesScanned(n) == [kind |-> "BytesScanned", arg |-> n]
HotFragmentEv(off) == [kind |-> "HotFragment", arg |-> off]
ChunkError(off) == [kind |-> "ChunkError", arg |-> off]

\* what scan_chunk_with_matcher can find in chunk i: no link, an untitled link
\* of top priority, or a titled link of low priority, of the same video
LinkChoices(i) ==
    {<<>>,
     <<[video_id |-> "dQw4w9WgXcQ", title |-> FALSE, confidence |-> 10,
        offset |-> chunks[i].offset]>>,
     <<[video_id |-> "dQw4w9WgXcQ", title |-> TRUE, confidence |-> 5,
        offset |-> chunks[i].offset]>>}

NoOutcome == [state |-> "none"]
OkOutcome(links, hot) == [state |-> "ok", links |-> links, hot |-> hot]
PanicOutcome == [state |-> "panic"]

ChunkIds == DOMAIN chunks
InProgress == {i \in ChunkIds : pc[i] \notin {"queued", "done"}}
SendPcs == {"sendCompleted", "sendBytes", "sendHot", "sendErr"}

\* a sender that never observes the closed channel
is_closed_never == FALSE

\* Sender::is_closed
is_closed == rx = "closed"

\* the event a task at a send position hands to blocking_send
EventAt(i) ==
    CASE pc[i] = "sendCompleted" -> ChunkCompleted(chunks[i].offset)
      [] pc[i] = "sendBytes" -> BytesScanned(chunks[i].size)
      [] pc[i] = "sendHot" -> HotFragmentEv(chunks[i].offset)
      [] pc[i] = "sendErr" -> ChunkError(chunks[i].offset)

\* where a task goes after the send at its position
AfterSend(i) ==
    CASE pc[i] = "sendCompleted" -> "sendBytes"
      [] pc[i] = "sendBytes" -> "scan"
      [] pc[i] = "sendHot" -> "done"
      [] pc[i] = "sendErr" -> "done"

ScanConfigs ==
    [chunk_size : {2}, overlap_size : {0, 1}, deduplicate : BOOLEAN,
     min_confidence : {0, 7}, reverse : BOOLEAN]

ScanInit ==
    /\ config \in ScanConfigs
    /\ disk_size \in 0..MaxDisk
    /\ start_offset \in {0, 1}
    /\ pool_size \in 1..MaxThreads
    /\ scan_pc = "init"
    /\ chunks = <<>>
    /\ pc = <<>>
    /\ outcome = <<>>
    /\ chan = <<>>
    /\ rx = "open"
    /\ delivered = <<>>
    /\ scan_result = Running

\* scan_streaming, lines 141-180: the early return, or the chunk list
ScanStart ==
    /\ scan_pc = "init"
    /\ IF disk_size = 0 \/ start_offset >= disk_size
       THEN /\ scan_pc' = "done"
            /\ scan_result' = DefaultScanResult
            /\ UNCHANGED <<chunks, pc, outcome>>
       ELSE LET base == create_chunks(disk_size - start_offset, config, start_offset)
                list == IF config.reverse THEN Reverse(base) ELSE base
            IN  /\ chunks' = list
                /\ pc' = [i \in DOMAIN list |-> "queued"]
                /\ outcome' = [i \in DOMAIN list |-> NoOutcome]
                /\ scan_pc' = "par"
                /\ UNCHANGED scan_result
    /\ UNCHANGED <<config, disk_size, start_offset, pool_size, chan, rx, delivered, nonScanVars>>

\* a pool thread takes chunk i: stats.add_chunk() and the first is_closed check
TaskStart(i) ==
    /\ scan_pc = "par"
    /\ pc[i] = "queued"
    /\ Cardinality(InProgress) < pool_size
    /\ pc' = [pc EXCEPT ![i] = IF is_closed THEN "scan" ELSE "sendCompleted"]
    /\ UNCHANGED <<config, disk_size, start_offset, pool_size, scan_pc, chunks,
                   outcome, chan, rx, delivered, scan_result, nonScanVars>>

\* a send that gives up when the channel is full
try_send(i) ==
    /\ pc[i] \in SendPcs
    /\ IF ~is_closed /\ Len(chan) < ChannelCapacity
       THEN chan' = Append(chan, EventAt(i))
       ELSE UNCHANGED chan
    /\ pc' = [pc EXCEPT ![i] = AfterSend(i)]
    /\ UNCHANGED <<config, disk_size, start_offset, pool_size, scan_pc, chunks,
                   outcome, rx, delivered, scan_result, nonScanVars>>

\* blocking_send: an error at once when the receiver is gone, else it waits for room
BlockingSend(i) ==
    /\ pc[i] \in SendPcs
    /\ \/ /\ is_closed
          /\ UNCHANGED chan
       \/ /\ ~is_closed
          /\ Len(chan) < ChannelCapacity
          /\ chan' = Append(chan, EventAt(i))
    /\ pc' = [pc EXCEPT ![i] = AfterSend(i)]
    /\ UNCHANGED <<config, disk_size, start_offset, pool_size, scan_pc, chunks,
                   outcome, rx, delivered, scan_result, nonScanVars>>

\* a panic that is swallowed without a ChunkError
AfterScanSilent(o) ==
    IF o.state = "panic" THEN "done"
    ELSE IF o.hot THEN "checkHot" ELSE "done"

\* where a task goes once catch_unwind has returned o
AfterScan(o) ==
    IF o.state = "panic" THEN "checkErr"
    ELSE IF o.hot THEN "checkHot" ELSE "done"

\* catch_unwind(scan_chunk_with_matcher): links and maybe a hot fragment, or a panic
ScanChunk(i) ==
    /\ pc[i] = "scan"
    /\ \E o \in {PanicOutcome} \cup {OkOutcome(l, h) : l \in LinkChoices(i), h \in BOOLEAN} :
          /\ outcome' = [outcome EXCEPT ![i] = o]
          /\ pc' = [pc EXCEPT ![i] = AfterScan(o)]
    /\ UNCHANGED <<config, disk_size, start_offset, pool_size, scan_pc, chunks,
                   chan, rx, delivered, scan_result, nonScanVars>>

\* the is_closed check in front of the HotFragment or ChunkError send
CheckClosed(i) ==
    /\ pc[i] \in {"checkHot", "checkErr"}
    /\ pc' = [pc EXCEPT ![i] = IF is_closed THEN "done"
                               ELSE IF pc[i] = "checkHot" THEN "sendHot" ELSE "sendErr"]
    /\ UNCHANGED <<config, disk_size, start_offset, pool_size, scan_pc, chunks,
                   outcome, chan, rx, delivered, scan_result, nonScanVars>>

\* what the filter_map closure returned for chunk i
ChunkLinks(o) == IF o.state = "ok" THEN o.links ELSE <<>>

\* collect() has joined every task: flatten, deduplicate, filter, sort, return Ok
Collect ==
    /\ scan_pc = "par"
    /\ \A i \in ChunkIds : pc[i] = "done"
    /\ \E r \in ScanResults([i \in ChunkIds |-> ChunkLinks(outcome[i])], config,
                            disk_size - start_offset, disk_size, start_offset) :
          scan_result' = r
    /\ scan_pc' = "done"
    /\ UNCHANGED <<config, disk_size, start_offset, pool_size, chunks, pc, outcome,
                   chan, rx, delivered, nonScanVars>>

\* the consumer receives the next event
Recv ==
    /\ rx = "open"
    /\ chan # <<>>
    /\ delivered' = Append(delivered, Head(chan))
    /\ chan' = Tail(chan)
    /\ UNCHANGED <<config, disk_size, start_offset, pool_size, scan_pc, chunks, pc,
                   outcome, rx, scan_result, nonScanVars>>

\* the consumer stops receiving and keeps the receiver
Stall ==
    /\ rx = "open"
    /\ rx' = "stalled"
    /\ UNCHANGED <<config, disk_size, start_offset, pool_size, scan_pc, chunks, pc,
                   outcome, chan, delivered, scan_result, nonScanVars>>

\* the consumer drops the receiver: the channel closes, buffered events are dropped
CloseRx ==
    /\ rx \in {"open", "stalled"}
    /\ rx' = "closed"
    /\ chan' = <<>>
    /\ UNCHANGED <<config, disk_size, start_offset, pool_size, scan_pc, chunks, pc,
                   outcome, delivered, scan_result, nonScanVars>>

WorkerStep(i) == TaskStart(i) \/ BlockingSend(i) \/ ScanChunk(i) \/ CheckClosed(i)

\* the steps of the scan thread and of the pool threads
ScannerNext == ScanStart \/ (\E i \in ChunkIds : WorkerStep(i)) \/ Collect

NextScan ==
    \/ ScanStart
    \/ \E i \in ChunkIds : TaskStart(i)
    \/ \E i \in ChunkIds : BlockingSend(i)
    \/ \E i \in ChunkIds : ScanChunk(i)
    \/ \E i \in ChunkIds : CheckClosed(i)
    \/ Collect
    \/ Recv
    \/ Stall
    \/ CloseRx

InitScan ==
    /\ ScanInit /\ AccIdle /\ CkptIdle /\ MgrIdle /\ ResumeIdle /\ SolverIdle /\ ExfatIdle /\ SliceIdle
    /\ ChunkIdle /\ DedupIdle /\ HotIdle /\ BootIdle /\ EntryIdle /\ FindIdle

\* the scan thread and the pool threads keep running; the consumer owes nothing
SpecScan == InitScan /\ [][NextScan]_vars /\ WF_vars(ScannerNext)

\* run_real_scan: recv() returns None once the scan has returned, which drops
\* the only sender, and the buffer is empty; the while-let loop ends
RecvNone ==
    /\ rx = "open"
    /\ scan_pc = "done"
    /\ chan = <<>>
    /\ rx' = "ended"
    /\ UNCHANGED <<config, disk_size, start_offset, pool_size, scan_pc, chunks, pc,
                   outcome, chan, delivered, scan_result, nonScanVars>>

\* the consumer loop of run_real_scan
ConsumerNext == Recv \/ RecvNone

NextDrain ==
    \/ ScanStart
    \/ \E i \in ChunkIds : TaskStart(i)
    \/ \E i \in ChunkIds : BlockingSend(i)
    \/ \E i \in ChunkIds : ScanChunk(i)
    \/ \E i \in ChunkIds : CheckClosed(i)
    \/ Collect
    \/ Recv
    \/ RecvNone

\* scan() starts the scan at offset 0
InitDrain == InitScan /\ start_offset = 0

\* the scanner thread, the pool threads and the consumer loop all keep running
SpecDrain ==
    InitDrain /\ [][NextDrain]_vars /\ WF_vars(ScannerNext) /\ WF_vars(ConsumerNext)

(***************************************************************************)
(* accelerator: lib.rs, RustParallelScanner::scan_streaming                *)
(***************************************************************************)
AccTasks == 1..AccChunks

\* lines 87-96: the channel is created and the scan thread spawned
AccInit ==
    /\ hot_cb \in BOOLEAN
    /\ acc_task = [i \in AccTasks |-> "queued"]
    /\ acc_finished = FALSE
    /\ hchan = <<>>
    /\ acc_pc = "cond"
    /\ cb_calls = <<>>

\* a per-chunk task of scan_file_streaming: h_cb(fragment) is tx.send(fragment)
\* when the chunk is promising
AccScanChunk(i) ==
    /\ acc_task[i] = "queued"
    /\ \E hot \in BOOLEAN :
          /\ hchan' = IF hot THEN Append(hchan, i) ELSE hchan
          /\ acc_task' = [acc_task EXCEPT ![i] = IF hot THEN "sent" ELSE "cold"]
    /\ UNCHANGED <<hot_cb, acc_finished, acc_pc, cb_calls, nonAccVars>>

\* scan_file_streaming returns and the spawned closure ends
AccThreadFinish ==
    /\ ~acc_finished
    /\ \A i \in AccTasks : acc_task[i] # "queued"
    /\ acc_finished' = TRUE
    /\ UNCHANGED <<hot_cb, acc_task, hchan, acc_pc, cb_calls, nonAccVars>>

\* line 114: while !handle.is_finished() || rx.try_recv().is_ok()
\* the try_recv of the condition takes a fragment out of the channel
AccLoopCond ==
    /\ acc_pc = "cond"
    /\ IF ~acc_finished
       THEN acc_pc' = "drain" /\ UNCHANGED hchan
       ELSE IF hchan # <<>>
            THEN acc_pc' = "drain" /\ hchan' = Tail(hchan)
            ELSE acc_pc' = "join" /\ UNCHANGED hchan
    /\ UNCHANGED <<hot_cb, acc_task, acc_finished, cb_calls, nonAccVars>>

\* lines 116-129: while let Ok(frag) = rx.try_recv() { cb(frag) }
AccDrain ==
    /\ acc_pc = "drain"
    /\ IF hchan # <<>>
       THEN /\ hchan' = Tail(hchan)
            /\ cb_calls' = IF hot_cb THEN Append(cb_calls, Head(hchan)) ELSE cb_calls
            /\ UNCHANGED acc_pc
       ELSE /\ acc_pc' = "cond"
            /\ UNCHANGED <<hchan, cb_calls>>
    /\ UNCHANGED <<hot_cb, acc_task, acc_finished, nonAccVars>>

\* line 156: handle.join()
AccJoin ==
    /\ acc_pc = "join"
    /\ acc_pc' = "done"
    /\ UNCHANGED <<hot_cb, acc_task, acc_finished, hchan, cb_calls, nonAccVars>>

NextAcc ==
    \/ \E i \in AccTasks : AccScanChunk(i)
    \/ AccThreadFinish
    \/ AccLoopCond
    \/ AccDrain
    \/ AccJoin

InitAcc ==
    /\ AccInit /\ ScanIdle /\ CkptIdle /\ MgrIdle /\ ResumeIdle /\ SolverIdle /\ ExfatIdle /\ SliceIdle
    /\ ChunkIdle /\ DedupIdle /\ HotIdle /\ BootIdle /\ EntryIdle /\ FindIdle

SpecAcc == InitAcc /\ [][NextAcc]_vars

\* how often x occurs in the sequence s
Occurrences(s, x) == Cardinality({k \in DOMAIN s : s[k] = x})

\* C2: exactly-once delivery of hot fragments. Every fragment a worker handed to
\* the channel is still buffered or was passed to hot_fragment_cb, exactly once;
\* when the polling loop has ended each one was passed to the callback once.
C2_ExactlyOnce ==
    hot_cb =>
        \A i \in AccTasks :
            acc_task[i] = "sent" =>
                /\ Occurrences(hchan, i) + Occurrences(cb_calls, i) = 1
                /\ acc_pc = "done" => Occurrences(cb_calls, i) = 1

(***************************************************************************)
(* rust-recovery: checkpoint.rs                                            *)
(***************************************************************************)
\* path.with_extension("tmp") and path.with_extension("bak"), for a checkpoint
\* path such as checkpoint.json whose siblings are files of their own
path == "path"
tmp_path_same == "path"
tmp_path == "tmp"
backup_path == "bak"

FileNames == {path, tmp_path, backup_path}

Partial(k) == [ck |-> k, st |-> "partial"]
Complete(k) == [ck |-> k, st |-> "complete"]

\* the file system before the first save: no checkpoint, or a complete older one
CkptInit ==
    /\ ck_backup \in BOOLEAN
    /\ files = [f \in FileNames |-> Absent]
    /\ save_pc = "idle"
    /\ save_ck = 0
    /\ save_ret = "none"
    /\ committed = 0
    /\ next_ck = 0

\* a caller hands checkpoint k to save_checkpoint_blocking (serialisation is
\* in memory and touches no file)
SaveEnter(k) ==
    /\ save_ck' = k
    /\ save_pc' = "create"
    /\ save_ret' = "none"
    /\ UNCHANGED <<ck_backup, files, committed>>

\* File::create(&tmp_path)?: the temp file is created or truncated, or Err
SaveCreate ==
    /\ save_pc = "create"
    /\ \/ /\ files' = [files EXCEPT ![tmp_path] = Partial(save_ck)]
          /\ save_pc' = "write"
          /\ UNCHANGED save_ret
       \/ /\ save_pc' = "ret"
          /\ save_ret' = "err"
          /\ UNCHANGED files
    /\ UNCHANGED <<ck_backup, save_ck, committed, next_ck>>

\* file.write_all(&serialized)?: all bytes written, or Err after some of them
SaveWrite ==
    /\ save_pc = "write"
    /\ \/ /\ files' = [files EXCEPT ![tmp_path] = Complete(save_ck)]
          /\ save_pc' = "sync"
          /\ UNCHANGED save_ret
       \/ /\ save_pc' = "ret"
          /\ save_ret' = "err"
          /\ UNCHANGED files
    /\ UNCHANGED <<ck_backup, save_ck, committed, next_ck>>

\* file.sync_all()?
SaveSync ==
    /\ save_pc = "sync"
    /\ \/ /\ save_pc' = "backup"
          /\ UNCHANGED save_ret
       \/ /\ save_pc' = "ret"
          /\ save_ret' = "err"
    /\ UNCHANGED <<ck_backup, files, save_ck, committed, next_ck>>

\* if backup && path.exists() { let _ = fs::copy(path, backup_path); }
\* the copy is best effort: it may stop half way or not start, without an error
SaveBackup ==
    /\ save_pc = "backup"
    /\ IF ck_backup /\ files[path].st # "absent"
       THEN \E copied \in {files[path], Partial(files[path].ck), files[backup_path]} :
               files' = [files EXCEPT ![backup_path] = copied]
       ELSE UNCHANGED files
    /\ save_pc' = "rename"
    /\ UNCHANGED <<ck_backup, save_ck, save_ret, committed, next_ck>>

\* fs::rename(tmp_path, path)?: the temp file replaces the checkpoint in one step
SaveRename ==
    /\ save_pc = "rename"
    /\ \/ /\ files' = [files EXCEPT ![path] = files[tmp_path], ![tmp_path] = Absent]
          /\ save_ret' = "ok"
          /\ committed' = save_ck
       \/ /\ save_ret' = "err"
          /\ UNCHANGED <<files, committed>>
    /\ save_pc' = "ret"
    /\ UNCHANGED <<ck_backup, save_ck, next_ck>>

\* ---- direct callers, with crashes -----------------------------------------

\* save_checkpoint_blocking(path, checkpoint, backup) is called
SaveBegin ==
    /\ save_pc = "idle"
    /\ next_ck < MaxSaves
    /\ next_ck' = next_ck + 1
    /\ SaveEnter(next_ck + 1)
    /\ UNCHANGED <<mgrVars, nonCkptVars>>

\* the call returns to its caller
SaveReturn ==
    /\ save_pc = "ret"
    /\ save_pc' = "idle"
    /\ UNCHANGED <<ck_backup, files, save_ck, save_ret, committed, next_ck,
                   mgrVars, nonCkptVars>>

\* the process dies in the middle of a save; bytes not yet synced may be lost
Crash ==
    /\ save_pc \in {"create", "write", "sync", "backup", "rename"}
    /\ save_pc' = "crashed"
    /\ IF save_pc \in {"write", "sync"}
       THEN \E t \in {files[tmp_path], Partial(save_ck)} :
               files' = [files EXCEPT ![tmp_path] = t]
       ELSE UNCHANGED files
    /\ UNCHANGED <<ck_backup, save_ck, save_ret, committed, next_ck,
                   mgrVars, nonCkptVars>>

\* the program is started again over the files the crash left
Restart ==
    /\ save_pc = "crashed"
    /\ save_pc' = "idle"
    /\ UNCHANGED <<ck_backup, files, save_ck, save_ret, committed, next_ck,
                   mgrVars, nonCkptVars>>

NextCkpt ==
    \/ SaveBegin
    \/ SaveCreate /\ UNCHANGED <<mgrVars, nonCkptVars>>
    \/ SaveWrite /\ UNCHANGED <<mgrVars, nonCkptVars>>
    \/ SaveSync /\ UNCHANGED <<mgrVars, nonCkptVars>>
    \/ SaveBackup /\ UNCHANGED <<mgrVars, nonCkptVars>>
    \/ SaveRename /\ UNCHANGED <<mgrVars, nonCkptVars>>
    \/ SaveReturn
    \/ Crash
    \/ Restart

InitCkpt ==
    /\ CkptInit /\ MgrIdle /\ ScanIdle /\ AccIdle /\ ResumeIdle /\ SolverIdle /\ ExfatIdle /\ SliceIdle
    /\ ChunkIdle /\ DedupIdle /\ HotIdle /\ BootIdle /\ EntryIdle /\ FindIdle

SpecCkpt == InitCkpt /\ [][NextCkpt]_vars

SaveRequest(k, responder) == [kind |-> "Save", ck |-> k, responder |-> responder]
ShutdownRequest == [kind |-> "Shutdown"]

\* CheckpointManager::start: the queue is created and the agent spawned
MgrInit ==
    /\ mq = <<>>
    /\ agent_pc = "recv"
    /\ cur_req = NoRequest
    /\ shutdown_ret = "none"
    /\ enq_log = <<>>
    /\ processed = <<>>
    /\ responses = {}

\* save (responder = TRUE) and save_fire_and_forget (responder = FALSE):
\* sender.send(..).await waits for room and fails once the agent has gone
MgrSave(responder) ==
    /\ agent_pc # "idle"
    /\ next_ck < MaxSaves
    /\ next_ck' = next_ck + 1
    /\ IF agent_pc = "stopped"
       THEN /\ responses' = responses \cup {[ck |-> next_ck + 1, ret |-> "closed"]}
            /\ UNCHANGED <<mq, enq_log>>
       ELSE /\ Len(mq) < MgrQueue
            /\ mq' = Append(mq, SaveRequest(next_ck + 1, responder))
            /\ enq_log' = IF shutdown_ret = "none"
                          THEN Append(enq_log, next_ck + 1) ELSE enq_log
            /\ UNCHANGED responses
    /\ UNCHANGED <<agent_pc, cur_req, shutdown_ret, processed,
                   ck_backup, files, save_pc, save_ck, save_ret, committed,
                   nonCkptVars>>

\* shutdown(): the request is queued behind the ones already there
MgrShutdown ==
    /\ agent_pc \in {"recv", "saving"}
    /\ shutdown_ret = "none"
    /\ Len(mq) < MgrQueue
    /\ mq' = Append(mq, ShutdownRequest)
    /\ shutdown_ret' = "pending"
    /\ UNCHANGED <<agent_pc, cur_req, enq_log, processed, responses,
                   ckptVars, nonCkptVars>>

\* an agent that answers a queued Shutdown ahead of the saves queued before it
AgentRecvShutdownFirst ==
    /\ agent_pc = "recv"
    /\ mq # <<>>
    /\ cur_req' = Head(mq)
    /\ IF \A m \in DOMAIN mq : mq[m].kind = "Save"
       THEN /\ mq' = Tail(mq)
            /\ agent_pc' = "saving"
            /\ SaveEnter(Head(mq).ck)
            /\ UNCHANGED <<shutdown_ret, responses>>
       ELSE /\ mq' = <<>>
            /\ agent_pc' = "stopped"
            /\ shutdown_ret' = "ok"
            /\ UNCHANGED <<responses, ck_backup, files, save_pc, save_ck, save_ret,
                           committed>>
    /\ UNCHANGED <<enq_log, processed, next_ck, nonCkptVars>>

\* receiver.recv().await hands the agent the oldest request: a Save starts
\* save_checkpoint_atomic, a Shutdown is answered Ok and ends the loop, which
\* drops the receiver and what is still queued
AgentRecv ==
    /\ agent_pc = "recv"
    /\ mq # <<>>
    /\ cur_req' = Head(mq)
    /\ IF Head(mq).kind = "Save"
       THEN /\ mq' = Tail(mq)
            /\ agent_pc' = "saving"
            /\ SaveEnter(Head(mq).ck)
            /\ UNCHANGED <<shutdown_ret, responses>>
       ELSE /\ mq' = <<>>
            /\ agent_pc' = "stopped"
            /\ shutdown_ret' = "ok"
            /\ responses' = responses \cup
                  {[ck |-> mq[n].ck, ret |-> "closed"] :
                      n \in {m \in DOMAIN mq : /\ mq[m].kind = "Save"
                                               /\ mq[m].responder}}
            /\ UNCHANGED <<ck_backup, files, save_pc, save_ck, save_ret, committed>>
    /\ UNCHANGED <<enq_log, processed, next_ck, nonCkptVars>>

\* the save has returned: its result goes to the responder, if there is one
AgentRespond ==
    /\ agent_pc = "saving"
    /\ save_pc = "ret"
    /\ save_pc' = "idle"
    /\ agent_pc' = "recv"
    /\ processed' = Append(processed, [ck |-> save_ck, ret |-> save_ret])
    /\ responses' = IF cur_req.responder
                    THEN responses \cup {[ck |-> save_ck, ret |-> save_ret]}
                    ELSE responses
    /\ cur_req' = NoRequest
    /\ UNCHANGED <<mq, shutdown_ret, enq_log, ck_backup, files, save_ck,
                   save_ret, committed, next_ck, nonCkptVars>>

NextMgr ==
    \/ \E responder \in BOOLEAN : MgrSave(responder)
    \/ MgrShutdown
    \/ AgentRecv
    \/ SaveCreate /\ UNCHANGED <<mgrVars, nonCkptVars>>
    \/ SaveWrite /\ UNCHANGED <<mgrVars, nonCkptVars>>
    \/ SaveSync /\ UNCHANGED <<mgrVars, nonCkptVars>>
    \/ SaveBackup /\ UNCHANGED <<mgrVars, nonCkptVars>>
    \/ SaveRename /\ UNCHANGED <<mgrVars, nonCkptVars>>
    \/ AgentRespond

InitMgr ==
    /\ CkptInit /\ MgrInit /\ ScanIdle /\ AccIdle /\ ResumeIdle /\ SolverIdle /\ ExfatIdle /\ SliceIdle
    /\ ChunkIdle /\ DedupIdle /\ HotIdle /\ BootIdle /\ EntryIdle /\ FindIdle

SpecMgr == InitMgr /\ [][NextMgr]_vars

\* the checkpoints of the completed saves, in the order they completed
ProcessedCks == [n \in DOMAIN processed |-> processed[n].ck]

\* the saves that were written in full
Written == {n \in DOMAIN processed : processed[n].ret = "ok"}

\* what the checkpoint file holds after the completed saves
LastWritten ==
    IF Written = {} THEN Absent
    ELSE Complete(processed[CHOOSE n \in Written : \A m \in Written : m <= n].ck)

ImageFile(bytes) == [readable |-> TRUE, bytes |-> bytes]
Unreadable == [readable |-> FALSE, bytes |-> <<>>]

\* the first n elements of s
Prefix(s, n) == SubSeq(s, 1, Min(n, Len(s)))

\* compute_image_hash: SHA-256 over the first HASH_READ_LIMIT bytes followed by
\* the length of the file; the digest stands for exactly what went into it
compute_image_hash(image) ==
    [prefix |-> Prefix(image.bytes, HASH_READ_LIMIT), len |-> Len(image.bytes)]

\* a stored hash that is the fingerprint of no image
InvalidHash == [prefix |-> <<>>, len |-> -1]

ResumeValid == [kind |-> "Ok", is_valid |-> TRUE, reason |-> "none"]
ResumeInvalid(reason) == [kind |-> "Ok", is_valid |-> FALSE, reason |-> reason]
ResumeIoError == [kind |-> "Err", is_valid |-> FALSE, reason |-> "Io"]

\* the same with the size test written position >= size
validate_resume_strict(image_path, checkpoint, image) ==
    IF checkpoint.image_path # image_path
    THEN ResumeInvalid("image path mismatch")
    ELSE IF ~image.readable
    THEN ResumeIoError
    ELSE IF checkpoint.image_hash # compute_image_hash(image)
    THEN ResumeInvalid("image hash mismatch")
    ELSE IF checkpoint.position >= Len(image.bytes)
    THEN ResumeInvalid("checkpoint position exceeds image size")
    ELSE ResumeValid

\* validate_resume; the ? on compute_image_hash and fs::metadata returns the
\* Io error of an image that cannot be opened
validate_resume(image_path, checkpoint, image) ==
    IF checkpoint.image_path # image_path
    THEN ResumeInvalid("image path mismatch")
    ELSE IF ~image.readable
    THEN ResumeIoError
    ELSE IF checkpoint.image_hash # compute_image_hash(image)
    THEN ResumeInvalid("image hash mismatch")
    ELSE IF checkpoint.position > Len(image.bytes)
    THEN ResumeInvalid("checkpoint position exceeds image size")
    ELSE ResumeValid

ImagePaths == {"image.bin", "other.bin"}

Images ==
    {Unreadable} \cup
    {ImageFile(b) : b \in UNION {[1..n -> {0, 1}] : n \in 0..MaxImage}}

Checkpoints ==
    [image_path : ImagePaths,
     image_hash : {InvalidHash} \cup
                  {compute_image_hash(i) : i \in Images \ {Unreadable}},
     position : 0..(MaxImage + 1)]

ResumeInit ==
    /\ rv_image_path \in ImagePaths
    /\ rv_checkpoint \in Checkpoints
    /\ rv_image \in Images
    /\ rv_result = NoRequest

ValidateResume ==
    /\ rv_result = NoRequest
    /\ rv_result' = validate_resume(rv_image_path, rv_checkpoint, rv_image)
    /\ UNCHANGED <<rv_image_path, rv_checkpoint, rv_image, nonResumeVars>>

NextResume == ValidateResume

InitResume ==
    /\ ResumeInit /\ ScanIdle /\ AccIdle /\ CkptIdle /\ MgrIdle /\ SolverIdle /\ ExfatIdle /\ SliceIdle
    /\ ChunkIdle /\ DedupIdle /\ HotIdle /\ BootIdle /\ EntryIdle /\ FindIdle

SpecResume == InitResume /\ [][NextResume]_vars

\* the three conditions of a valid resume
PathMatches == rv_checkpoint.image_path = rv_image_path
HashMatches ==
    /\ rv_image.readable
    /\ rv_checkpoint.image_hash = compute_image_hash(rv_image)
PositionInside ==
    /\ rv_image.readable
    /\ rv_checkpoint.position <= Len(rv_image.bytes)

\* C7 as stated: the checkpoint is reported valid iff the path matches, the hash
\* equals the fingerprint recomputed from the image and the position is at most
\* the image size; in every other case is_valid = false comes back with a reason.
C7_ValidIff ==
    rv_result # NoRequest =>
        IF PathMatches /\ HashMatches /\ PositionInside
        THEN rv_result = ResumeValid
        ELSE /\ rv_result.kind = "Ok"
             /\ ~rv_result.is_valid
             /\ rv_result.reason # "none"

\* C7, amended: the same, except that with a matching path and an image that
\* cannot be opened or read the Io error is returned instead of a verdict.
C7_ValidIffReadable ==
    rv_result # NoRequest =>
        IF PathMatches /\ HashMatches /\ PositionInside
        THEN rv_result = ResumeValid
        ELSE IF PathMatches /\ ~rv_image.readable
        THEN rv_result = ResumeIoError
        ELSE /\ rv_result.kind = "Ok"
             /\ ~rv_result.is_valid
             /\ rv_result.reason # "none"

\* a checkpoint at the very end of an image longer than the hashed prefix is valid
C7_Witness ==
    /\ rv_result = ResumeValid
    /\ rv_checkpoint.position = Len(rv_image.bytes)
    /\ Len(rv_image.bytes) > HASH_READ_LIMIT

(***************************************************************************)
(* rust-recovery: stream_solver.rs                                         *)
(***************************************************************************)
\* StreamFragment::end_offset and StreamFragment::total_score
end_offset(f) == f.offset + f.size
total_score(f) == f.base_score + f.overall_score

\* ByteFrequency::cosine_similarity for fragments filled with one byte value
\* each: 1 for the same byte, 0 for different ones
cosine_similarity(left, right) == IF left.byte = right.byte THEN 1 ELSE 0

\* jaccard_similarity for link sets of at most one link
jaccard_similarity(left_links, right_links) ==
    IF left_links = {} /\ right_links = {} THEN 0
    ELSE IF left_links = right_links THEN 1 ELSE 0

NoEdge == [defined |-> FALSE, score |-> 0]

\* edge_score(left, right, weights, ..): None outside the gap and overlap
\* limits or under min_edge_score; the penalties divide without remainder for
\* the weights used here
edge_score(left, right, w) ==
    LET left_end == end_offset(left)
        gap == IF right.offset >= left_end THEN right.offset - left_end ELSE 0
        overlap == IF right.offset >= left_end THEN 0 ELSE left_end - right.offset
        score == (IF w.max_gap > 0 THEN 0 - (w.gap_penalty * gap) \div w.max_gap ELSE 0)
                 + (IF w.max_overlap > 0
                    THEN 0 - (w.overlap_penalty * overlap) \div w.max_overlap ELSE 0)
                 + (IF left.file_type = right.file_type
                    THEN w.type_match_bonus ELSE 0 - w.type_mismatch_penalty)
                 + cosine_similarity(left, right) * w.cosine_weight
                 + jaccard_similarity(left.links, right.links) * w.jaccard_weight
                 + (IF left.structured /\ right.structured THEN w.structure_bonus ELSE 0)
    IN  IF gap > w.max_gap \/ overlap > w.max_overlap THEN NoEdge
        ELSE IF score < w.min_edge_score THEN NoEdge
        ELSE [defined |-> TRUE, score |-> score]

\* lines 78-102: for j in (0..i).rev(), leaving at max_lookback and at the
\* first j whose gap to i is larger than max_gap
RECURSIVE LookBack(_, _, _, _, _, _, _)
LookBack(fr, w, best, i, j, looked_back, acc) ==
    IF j < 1 \/ looked_back >= w.max_lookback THEN acc
    ELSE IF /\ fr[i].offset >= end_offset(fr[j])
            /\ fr[i].offset - end_offset(fr[j]) > w.max_gap
    THEN acc
    ELSE LET e == edge_score(fr[j], fr[i], w)
             candidate == best[j] + e.score + total_score(fr[i])
         IN  LookBack(fr, w, best, i, j - 1, looked_back + 1,
                 IF e.defined /\ candidate > acc.best
                 THEN [best |-> candidate, previous |-> j, edge |-> e.score]
                 ELSE acc)

\* lines 69-103: the tables best_score, previous and edge_score_to, filled for
\* i = 1 .. count (previous 0 stands for None)
RECURSIVE FillTables(_, _, _, _)
FillTables(fr, w, i, t) ==
    IF i > Len(fr) THEN t
    ELSE LET r == LookBack(fr, w, t.best, i, i - 1, 0,
                      [best |-> total_score(fr[i]), previous |-> 0, edge |-> 0])
         IN  FillTables(fr, w, i + 1,
                 [best |-> Append(t.best, r.best),
                  previous |-> Append(t.previous, r.previous),
                  edge |-> Append(t.edge, r.edge)])

Tables(fr, w) == FillTables(fr, w, 1, [best |-> <<>>, previous |-> <<>>, edge |-> <<>>])

\* Iterator::max_by over best_score: the last of the maximal elements
BestIndex(best) ==
    CHOOSE i \in DOMAIN best :
        /\ \A k \in DOMAIN best : best[k] <= best[i]
        /\ \A k \in DOMAIN best : best[k] = best[i] => k <= i

\* lines 110-123: the path read back through previous, then reversed
RECURSIVE PathTo(_, _)
PathTo(previous, idx) ==
    IF previous[idx] = 0 THEN <<idx>>
    ELSE Append(PathTo(previous, previous[idx]), idx)

\* find_best_path for a non-empty pool
find_best_path(fr, w) ==
    LET t == Tables(fr, w)
        best_index == BestIndex(t.best)
        indices == PathTo(t.previous, best_index)
    IN  [indices |-> indices,
         edge_scores |-> [n \in 1..(Len(indices) - 1) |-> t.edge[indices[n + 1]]],
         total_score |-> t.best[best_index],
         best_score |-> t.best]

\* build_stream: the selected fragments with the score of their path
build_stream(p, fr) ==
    [fragments |-> [n \in DOMAIN p.indices |-> fr[p.indices[n]]],
     total_score |-> p.total_score,
     edge_scores |-> p.edge_scores]

\* lines 48-53: the pool without the fragments at the used indices
RECURSIVE WithoutIndices(_, _, _)
WithoutIndices(fr, used, idx) ==
    IF idx > Len(fr) THEN <<>>
    ELSE (IF idx \in used THEN <<>> ELSE <<fr[idx]>>)
         \o WithoutIndices(fr, used, idx + 1)

\* make_fragment of the tests: the file type decides the byte the data is made
\* of; no links, has_structured_text set, base_score and overall_score fixed
FragmentKinds ==
    {[file_type |-> "json", byte |-> "a"], [file_type |-> "html", byte |-> "z"]}

make_fragment(id, offset, size, kind) ==
    [id |-> id, offset |-> offset, size |-> size, base_score |-> 1,
     overall_score |-> 1, file_type |-> kind.file_type, byte |-> kind.byte,
     links |-> {}, structured |-> TRUE]

\* what a caller chooses for one fragment
FragmentChoices == [offset : 0..3, size : {1, 3}, kind : FragmentKinds]

\* the fragment lists built from those choices, in any order
FragmentLists(n) ==
    {[id \in 1..n |-> make_fragment(id, c[id].offset, c[id].size, c[id].kind)] :
        c \in [1..n -> FragmentChoices]}

\* weights under which only fragments of one kind join, up to two indices back
NearWeights ==
    [max_gap |-> 1, max_overlap |-> 2, gap_penalty |-> 2, overlap_penalty |-> 2,
     type_match_bonus |-> 2, type_mismatch_penalty |-> 3, cosine_weight |-> 2,
     jaccard_weight |-> 1, structure_bonus |-> 1, min_edge_score |-> 1,
     max_lookback |-> 2]

\* weights under which touching fragments of any kind join, one index back
TouchWeights ==
    [max_gap |-> 0, max_overlap |-> 1, gap_penalty |-> 2, overlap_penalty |-> 1,
     type_match_bonus |-> 1, type_mismatch_penalty |-> 0, cosine_weight |-> 1,
     jaccard_weight |-> 1, structure_bonus |-> 1, min_edge_score |-> 0,
     max_lookback |-> 1]

\* weights that charge nothing for a gap, so that a near and a far predecessor
\* of the same kind can score alike
FreeGapWeights ==
    [max_gap |-> 1, max_overlap |-> 1, gap_penalty |-> 0, overlap_penalty |-> 2,
     type_match_bonus |-> 2, type_mismatch_penalty |-> 3, cosine_weight |-> 2,
     jaccard_weight |-> 1, structure_bonus |-> 1, min_edge_score |-> 1,
     max_lookback |-> 2]

SolverWeights == {NearWeights, TouchWeights, FreeGapWeights}

\* max_streams.unwrap_or(3)
StreamCap(max_streams) == IF max_streams.some THEN max_streams.value ELSE 3

\* a limit that lets one stream more through
limit_plus_one(max_streams) == StreamCap(max_streams) + 1

\* max_streams.unwrap_or(3).max(1)
StreamLimit(max_streams) == Max(StreamCap(max_streams), 1)

\* lines 21-27: the call, up to the first test of the loop condition
SolverInit ==
    /\ \E n \in 0..MaxFrags : sv_fragments \in FragmentLists(n)
    /\ sv_weights \in SolverWeights
    /\ sv_max_streams \in {None, Some(0), Some(1), Some(2)}
    /\ sv_remaining = sv_fragments
    /\ sv_streams = <<>>
    /\ sv_pc = "loop"
    /\ sv_pool = <<>>
    /\ sv_best = <<>>

\* lines 29-54: one round of the while loop
AssembleStep ==
    /\ sv_pc = "loop"
    /\ sv_remaining # <<>>
    /\ Len(sv_streams) < StreamLimit(sv_max_streams)
    /\ LET sorted == SortByOffset(sv_remaining)
           p == find_best_path(sorted, sv_weights)
       IN  /\ sv_streams' = Append(sv_streams, build_stream(p, sorted))
           /\ sv_remaining' = WithoutIndices(sorted, Range(p.indices), 1)
           /\ sv_pool' = sorted
           /\ sv_best' = p.best_score
    /\ UNCHANGED <<sv_fragments, sv_weights, sv_max_streams, sv_pc, nonSolverVars>>

\* lines 21-23 and 56: the streams are returned
AssembleReturn ==
    /\ sv_pc = "loop"
    /\ \/ sv_remaining = <<>>
       \/ Len(sv_streams) >= StreamLimit(sv_max_streams)
    /\ sv_pc' = "done"
    /\ UNCHANGED <<sv_fragments, sv_weights, sv_max_streams, sv_remaining,
                   sv_streams, sv_pool, sv_best, nonSolverVars>>

NextSolver == AssembleStep \/ AssembleReturn

InitSolver ==
    /\ SolverInit /\ ScanIdle /\ AccIdle /\ CkptIdle /\ MgrIdle /\ ResumeIdle
    /\ ExfatIdle /\ SliceIdle /\ ChunkIdle /\ DedupIdle /\ HotIdle /\ BootIdle
    /\ EntryIdle /\ FindIdle

SpecSolver == InitSolver /\ [][NextSolver]_vars


\* the fragments of all streams built so far, by their place in the input
StreamIds == Flatten([n \in DOMAIN sv_streams |->
                 [m \in DOMAIN sv_streams[n].fragments |->
                     sv_streams[n].fragments[m].id]])

\* C8: every stream lists its fragments in non-decreasing offset order, and no
\* input fragment occurs in more than one stream (nor twice in one).
C8_MonotoneDisjoint ==
    /\ \A n \in DOMAIN sv_streams :
          \A a, b \in DOMAIN sv_streams[n].fragments :
              a < b => sv_streams[n].fragments[a].offset
                           <= sv_streams[n].fragments[b].offset
    /\ \A a, b \in DOMAIN StreamIds : a # b => StreamIds[a] # StreamIds[b]

\* streams returned for an input that was not in offset order, one of them
\* joining two fragments of the same offset
C8_Witness ==
    /\ sv_pc = "done"
    /\ Len(sv_streams) >= 2
    /\ \E a, b \in DOMAIN sv_fragments :
          a < b /\ sv_fragments[a].offset > sv_fragments[b].offset
    /\ \E n \in DOMAIN sv_streams :
          /\ Len(sv_streams[n].fragments) >= 2
          /\ sv_streams[n].fragments[1].offset = sv_streams[n].fragments[2].offset

\* the predecessors of i the claim counts: up to max_lookback indices back,
\* with a defined edge to i
Eligible(i) ==
    {j \in 1..(i - 1) : /\ i - j <= sv_weights.max_lookback
                        /\ edge_score(sv_pool[j], sv_pool[i], sv_weights).defined}

\* C9: for every index i of the sorted pool, best[i] is node_score(i) plus the
\* largest best[j] + edge_score(j, i) over all eligible predecessors j, and
\* node_score(i) alone when there is none.
C9_DpOptimal ==
    \A i \in DOMAIN sv_pool :
        IF Eligible(i) = {}
        THEN sv_best[i] = total_score(sv_pool[i])
        ELSE \E j \in Eligible(i) :
                /\ sv_best[i] = total_score(sv_pool[i]) + sv_best[j]
                                + edge_score(sv_pool[j], sv_pool[i], sv_weights).score
                /\ \A k \in Eligible(i) :
                      sv_best[k] + edge_score(sv_pool[k], sv_pool[i], sv_weights).score
                      <= sv_best[j]
                         + edge_score(sv_pool[j], sv_pool[i], sv_weights).score

(***************************************************************************)
(* exfat.rs: extract_file_content in rust-recovery and in the accelerator  *)
(***************************************************************************)
\* 0xFFFFFFF7, the first end-of-chain value
FAT_EOC_MIN == U32_MAX - 8

\* the image offsets first .. last - 1, in order
RECURSIVE Offsets(_, _)
Offsets(first, last) ==
    IF first >= last THEN <<>> ELSE <<first>> \o Offsets(first + 1, last)

\* rust-recovery fat_next_cluster: the 4-byte entry of the cluster, None when it
\* does not lie inside the image
fat_next_cluster(data_len, params, fat, cluster) ==
    IF params.fat_offset + 4 * cluster + 4 <= data_len /\ cluster \in DOMAIN fat
    THEN Some(fat[cluster]) ELSE None

\* accelerator fat_next_cluster: 0xFFFFFFFF for an entry outside the image
acc_fat_next_cluster(data_len, params, fat, cluster) ==
    IF params.fat_offset + 4 * cluster + 4 > data_len \/ cluster \notin DOMAIN fat
    THEN U32_MAX ELSE fat[cluster]

\* the heap offset with the cluster number taken as an index from 0
cluster_times_size(params, cluster) ==
    IF cluster < 2 THEN None
    ELSE Some(params.cluster_heap_offset + cluster * params.cluster_size)

\* rust-recovery cluster_to_offset (the sums stay far below 2^64 here)
cluster_to_offset(params, cluster) ==
    IF cluster < 2 THEN None
    ELSE Some(params.cluster_heap_offset + (cluster - 2) * params.cluster_size)

\* accelerator cluster_to_offset, called with cluster >= 2 only
acc_cluster_to_offset(params, cluster) ==
    params.cluster_heap_offset + (cluster - 2) * params.cluster_size

\* file_size with no cap
uncapped_size(file_size) == file_size

\* file_size.min(MAX_EXTRACT_SIZE)
actual_size(file_size) == Min(file_size, MAX_EXTRACT_SIZE)

\* u32::saturating_add
saturating_add(a, b) == Min(a + b, U32_MAX)

\* the FAT at bytes 4.., 4 bytes an entry, and the cluster heap behind the
\* entries of clusters 0 .. 3
BootParams(cluster_size, cluster_count) ==
    [fat_offset |-> 4, cluster_heap_offset |-> 20,
     cluster_size |-> cluster_size, cluster_count |-> cluster_count]

ExfatInit ==
    /\ ex_impl \in {"rust-recovery", "accelerator"}
    /\ ex_data_len \in {16, 21, 23, 24}
    /\ ex_params \in {BootParams(cs, cc) : cs \in {0, 1, 2}, cc \in {1, 3}}
    /\ ex_fat \in [2..3 -> {1, 2, 3, 4, FAT_EOC_MIN}]
    /\ ex_first_cluster \in {1, 2, 3, FAT_EOC_MIN}
    /\ ex_file_size \in {0, 2, MAX_EXTRACT_SIZE, MAX_EXTRACT_SIZE + 1}
    /\ ex_no_fat_chain \in BOOLEAN
    /\ ex_pc = "call"
    /\ ex_remaining = 0
    /\ ex_cluster = 0
    /\ ex_visited = {}
    /\ ex_chain_len = 0
    /\ ex_content = <<>>

\* both crates: the early return and the set-up of the walk
ExtractBegin ==
    /\ ex_pc = "call"
    /\ IF ex_first_cluster < 2 \/ ex_file_size = 0
       THEN /\ ex_pc' = "done"
            /\ UNCHANGED <<ex_remaining, ex_cluster>>
       ELSE /\ ex_pc' = "loop"
            /\ ex_remaining' = actual_size(ex_file_size)
            /\ ex_cluster' = ex_first_cluster
    /\ UNCHANGED <<ex_impl, ex_data_len, ex_params, ex_fat, ex_first_cluster,
                   ex_file_size, ex_no_fat_chain, ex_visited, ex_chain_len,
                   ex_content, nonExfatVars>>

\* content.truncate(actual_size as usize); content
Truncated(content) == Prefix(content, actual_size(ex_file_size))

\* rust-recovery lines 185-224: the loop test and one round of the walk; every
\* break leads to the truncate and the return
RecWalk ==
    /\ ex_pc = "loop"
    /\ ex_impl = "rust-recovery"
    /\ LET max_chain == saturating_add(ex_params.cluster_count, 1)
           start == cluster_to_offset(ex_params, ex_cluster)
           to_read == Min(ex_remaining, ex_params.cluster_size)
           end == Min(start.value + to_read, ex_data_len)
           read == ex_content \o Offsets(start.value, end)
           next == IF ex_no_fat_chain
                   THEN (IF ex_cluster + 1 <= U32_MAX
                         THEN Some(ex_cluster + 1) ELSE None)
                   ELSE fat_next_cluster(ex_data_len, ex_params, ex_fat, ex_cluster)
       IN  IF \/ ex_remaining = 0
              \/ ex_cluster < 2 \/ ex_cluster >= FAT_EOC_MIN \/ ex_cluster > max_chain
              \/ ex_cluster \in ex_visited
           THEN /\ ex_pc' = "done"
                /\ ex_content' = Truncated(ex_content)
                /\ UNCHANGED <<ex_remaining, ex_cluster, ex_visited>>
           ELSE /\ ex_visited' = ex_visited \cup {ex_cluster}
                /\ IF ~start.some \/ start.value >= ex_data_len \/ end <= start.value
                   THEN /\ ex_pc' = "done"
                        /\ ex_content' = Truncated(ex_content)
                        /\ UNCHANGED <<ex_remaining, ex_cluster>>
                   ELSE /\ ex_remaining' = Max(ex_remaining - (end - start.value), 0)
                        /\ IF next.some
                           THEN /\ ex_cluster' = next.value
                                /\ ex_content' = read
                                /\ UNCHANGED ex_pc
                           ELSE /\ ex_pc' = "done"
                                /\ ex_content' = Truncated(read)
                                /\ UNCHANGED ex_cluster
    /\ UNCHANGED <<ex_impl, ex_data_len, ex_params, ex_fat, ex_first_cluster,
                   ex_file_size, ex_no_fat_chain, ex_chain_len, nonExfatVars>>

\* accelerator lines 227-245: the loop test and one round of the walk
AccWalk ==
    /\ ex_pc = "loop"
    /\ ex_impl = "accelerator"
    /\ LET max_chain == saturating_add(ex_params.cluster_count, 100)
           start == acc_cluster_to_offset(ex_params, ex_cluster)
           to_read == Min(ex_remaining, ex_params.cluster_size)
           end == Min(start + to_read, ex_data_len)
       IN  IF \/ ~(/\ ex_remaining > 0
                   /\ ex_cluster >= 2
                   /\ ex_cluster < FAT_EOC_MIN
                   /\ ex_chain_len < max_chain)
              \/ start >= ex_data_len
              \/ start >= end
           THEN /\ ex_pc' = "done"
                /\ ex_content' = Truncated(ex_content)
                /\ UNCHANGED <<ex_remaining, ex_cluster, ex_chain_len>>
           ELSE /\ ex_content' = ex_content \o Offsets(start, end)
                /\ ex_remaining' = ex_remaining - to_read
                /\ ex_chain_len' = ex_chain_len + 1
                /\ ex_cluster' =
                      IF ex_no_fat_chain THEN ex_cluster + 1
                      ELSE acc_fat_next_cluster(ex_data_len, ex_params, ex_fat,
                                                ex_cluster)
                /\ UNCHANGED ex_pc
    /\ UNCHANGED <<ex_impl, ex_data_len, ex_params, ex_fat, ex_first_cluster,
                   ex_file_size, ex_no_fat_chain, ex_visited, nonExfatVars>>

NextExfat == ExtractBegin \/ RecWalk \/ AccWalk

InitExfat ==
    /\ ExfatInit /\ ScanIdle /\ AccIdle /\ CkptIdle /\ MgrIdle /\ ResumeIdle
    /\ SolverIdle /\ SliceIdle /\ ChunkIdle /\ DedupIdle /\ HotIdle /\ BootIdle
    /\ EntryIdle /\ FindIdle

\* a call that has started runs on until it returns
SpecExfat == InitExfat /\ [][NextExfat]_vars /\ WF_vars(NextExfat)

\* C10: extract_file_content returns, whatever the image, the boot parameters,
\* the first cluster, the file size and the chain flag, and what it returns is
\* never longer than min(file_size, MAX_EXTRACT_SIZE).
C10_TerminatesBounded ==
    /\ <>(ex_pc = "done")
    /\ [](ex_pc = "done" =>
             Len(ex_content) <= Min(ex_file_size, MAX_EXTRACT_SIZE))

\* a file larger than the cap whose chain 2 -> 3 -> 2 loops: the walk has
\* stopped at the cluster it had already read
C10_Witness ==
    /\ ex_pc = "done"
    /\ ex_impl = "rust-recovery"
    /\ ~ex_no_fat_chain
    /\ ex_file_size > MAX_EXTRACT_SIZE
    /\ ex_fat[2] = 3 /\ ex_fat[3] = 2
    /\ ex_visited = {2, 3}
    /\ ex_cluster = 2
    /\ ex_remaining > 0
    /\ Len(ex_content) = 2

\* C11: cycle detection in the FAT-chain walker. The walk stops at a cluster it
\* has already read, so no byte of the image is appended to the output twice.
C11_NoClusterTwice ==
    \A a, b \in DOMAIN ex_content : a # b => ex_content[a] # ex_content[b]

(***************************************************************************)
(* rust-recovery: disk.rs, DiskImage::get_slice                            *)
(***************************************************************************)
\* u64 addition that wraps around
wrapping_add(a, b) == Some((a + b) % (U64_MAX + 1))

\* u64::checked_add
checked_add(a, b) == IF a + b > U64_MAX THEN None ELSE Some(a + b)

InvalidOffset == [kind |-> "InvalidOffset", offset |-> 0, data |-> <<>>]
InvalidSize == [kind |-> "InvalidSize", offset |-> 0, data |-> <<>>]

\* FragmentSlice::new(offset, &self.mmap[start..end]); the view names the image
\* bytes it covers
FragmentSlice(offset, start, end) ==
    [kind |-> "Ok", offset |-> offset, data |-> Offsets(start, end)]

\* DiskImage::get_slice
get_slice(size, offset, len) ==
    IF offset >= size THEN InvalidOffset
    ELSE LET end_off == checked_add(offset, len)
         IN  IF ~end_off.some THEN InvalidSize
             ELSE IF end_off.value > size THEN InvalidSize
             ELSE FragmentSlice(offset, offset, end_off.value)

SliceInit ==
    /\ gs_size \in 0..U64_MAX
    /\ gs_offset \in 0..U64_MAX
    /\ gs_len \in 0..U64_MAX
    /\ gs_result = NoRequest

GetSlice ==
    /\ gs_result = NoRequest
    /\ gs_result' = get_slice(gs_size, gs_offset, gs_len)
    /\ UNCHANGED <<gs_size, gs_offset, gs_len, nonSliceVars>>

NextSlice == GetSlice

InitSlice ==
    /\ SliceInit /\ ScanIdle /\ AccIdle /\ CkptIdle /\ MgrIdle /\ ResumeIdle
    /\ SolverIdle /\ ExfatIdle /\ ChunkIdle /\ DedupIdle /\ HotIdle /\ BootIdle
    /\ EntryIdle /\ FindIdle

SpecSlice == InitSlice /\ [][NextSlice]_vars

\* C12: get_slice succeeds exactly when offset < size and offset + len <= size,
\* with a view of exactly len bytes from offset on; offset >= size gives
\* InvalidOffset (for len = 0 and an empty image too); offset < size with
\* offset + len overflowing or beyond size gives InvalidSize; an error covers no
\* byte of the image.
C12_GetSliceBounds ==
    gs_result # NoRequest =>
        /\ (gs_offset < gs_size /\ gs_offset + gs_len <= gs_size) =>
              /\ gs_result.kind = "Ok"
              /\ gs_result.offset = gs_offset
              /\ Len(gs_result.data) = gs_len
              /\ \A n \in DOMAIN gs_result.data :
                    gs_result.data[n] = gs_offset + n - 1
        /\ gs_offset >= gs_size => gs_result = InvalidOffset
        /\ (gs_offset < gs_size /\ gs_offset + gs_len > gs_size) =>
              gs_result = InvalidSize
        /\ gs_result.kind # "Ok" => gs_result.data = <<>>

\* a request inside the image whose end does not fit in a u64
C12_Witness ==
    /\ gs_result = InvalidSize
    /\ gs_offset < gs_size
    /\ gs_offset + gs_len > U64_MAX

(***************************************************************************)
(* The chunk list: create_chunks of both crates, numa.rs distribute_chunks *)
(* and the set-up of scan_streaming / scan_file_streaming                  *)
(***************************************************************************)
\* ScanConfig::new: chunk_size rounded down to a multiple of 64, at least 64
ScanConfigNew(chunk_size, overlap_size) ==
    [chunk_size |-> Max((chunk_size \div 64) * 64, 64), overlap_size |-> overlap_size]

\* ScanConfig::default
ScanConfigDefault == [chunk_size |-> 256 * 1024 * 1024, overlap_size |-> 64 * 1024]

\* a ScanConfig written as a struct literal: the fields are public
ScanConfigLiteral == [chunk_size : 0..MaxChunk, overlap_size : 0..MaxChunk]

ChunkConfigs ==
    ScanConfigLiteral
        \cup {ScanConfigNew(c, o) : c \in {0, 100, 128}, o \in {0, 64}}
        \cup {ScanConfigDefault}

\* accelerator create_chunks: offset runs over the whole file from start_offset
RECURSIVE acc_create_chunks(_, _, _)
acc_create_chunks(offset, data_len, cfg) ==
    IF offset >= data_len THEN <<>>
    ELSE LET chunk_end == Min(offset + cfg.chunk_size + cfg.overlap_size, data_len)
             this == IF offset < chunk_end
                     THEN <<[offset |-> offset, size |-> chunk_end - offset]>>
                     ELSE <<>>
         IN  IF cfg.chunk_size = 0 THEN this
             ELSE this \o acc_create_chunks(offset + cfg.chunk_size, data_len, cfg)

\* a distribution that gives every node total_chunks / nodes chunks and no more
RECURSIVE distribute_evenly(_, _, _, _)
distribute_evenly(i, chunk_id, nodes, total_chunks) ==
    IF i >= nodes THEN <<>>
    ELSE LET ids == [k \in 1..(total_chunks \div nodes) |-> chunk_id + k - 1]
         IN  <<ids>> \o distribute_evenly(i + 1, chunk_id + Len(ids), nodes, total_chunks)

\* NumaTopology::distribute_chunks from node i on: the chunk ids (from 0) of each
\* node, in node order
RECURSIVE distribute_chunks(_, _, _, _)
distribute_chunks(i, chunk_id, nodes, total_chunks) ==
    IF i >= nodes THEN <<>>
    ELSE LET count == (total_chunks \div nodes)
                          + (IF i < total_chunks % nodes THEN 1 ELSE 0)
             ids == [k \in 1..Min(count, total_chunks - chunk_id) |-> chunk_id + k - 1]
         IN  <<ids>> \o distribute_chunks(i + 1, chunk_id + Len(ids), nodes, total_chunks)

\* the loop over the distribution: base_chunks.get(id) of every id, node by node
numa_chunks(base_chunks, nodes) ==
    LET ids == Flatten(distribute_chunks(0, 0, nodes, Len(base_chunks)))
        known == SelectSeq(ids, LAMBDA id : id + 1 \in DOMAIN base_chunks)
    IN  [k \in DOMAIN known |-> base_chunks[known[k] + 1]]

\* the list `chunks` of scan_streaming; nodes = 0 stands for no NUMA topology
rec_chunk_list(size, start, cfg, nodes, reverse) ==
    IF size = 0 \/ start >= size THEN <<>>
    ELSE LET base_chunks == create_chunks(size - start, cfg, start)
             list == IF nodes > 0 THEN numa_chunks(base_chunks, nodes) ELSE base_chunks
         IN  IF reverse THEN Reverse(list) ELSE list

\* the list `chunks` of scan_file_streaming
acc_chunk_list(size, start, cfg, reverse) ==
    IF size = 0 THEN <<>>
    ELSE LET list == acc_create_chunks(start, size, cfg)
         IN  IF reverse THEN Reverse(list) ELSE list

ChunkInit ==
    /\ ch_impl \in {"rust-recovery", "accelerator"}
    /\ ch_size \in 0..(2 * MaxChunk) \cup {64, 130}
    /\ ch_start \in {0, 1, 2, 64}
    /\ ch_config \in ChunkConfigs
    \* the images of more than a few bytes are scanned in chunks of whole blocks
    /\ ch_size > 2 * MaxChunk => (ch_config.chunk_size = 0 \/ ch_config.chunk_size >= 64)
    /\ ch_reverse \in BOOLEAN
    /\ ch_nodes \in IF ch_impl = "rust-recovery" THEN 0..2 ELSE {0}
    /\ ch_pc = "start"
    /\ ch_chunks = <<>>

\* scan_streaming up to `if reverse { chunks.reverse(); }`
RecChunkList ==
    /\ ch_impl = "rust-recovery"
    /\ ch_pc = "start"
    /\ ch_chunks' = rec_chunk_list(ch_size, ch_start, ch_config, ch_nodes, ch_reverse)
    /\ ch_pc' = "listed"
    /\ UNCHANGED <<ch_impl, ch_size, ch_start, ch_config, ch_reverse, ch_nodes, nonChunkVars>>

\* scan_file_streaming up to `if reverse { chunks.reverse(); }`
AccChunkList ==
    /\ ch_impl = "accelerator"
    /\ ch_pc = "start"
    /\ ch_chunks' = acc_chunk_list(ch_size, ch_start, ch_config, ch_reverse)
    /\ ch_pc' = "listed"
    /\ UNCHANGED <<ch_impl, ch_size, ch_start, ch_config, ch_reverse, ch_nodes, nonChunkVars>>

NextChunk == RecChunkList \/ AccChunkList

InitChunk ==
    /\ ChunkInit /\ ScanIdle /\ AccIdle /\ CkptIdle /\ MgrIdle /\ ResumeIdle
    /\ SolverIdle /\ ExfatIdle /\ SliceIdle /\ DedupIdle /\ HotIdle /\ BootIdle
    /\ EntryIdle /\ FindIdle

SpecChunk == InitChunk /\ [][NextChunk]_vars

\* the bytes of a chunk
ChunkBytes(chunk) == chunk.offset..(chunk.offset + chunk.size - 1)

\* the list the same scan builds in the other direction
OtherDirection ==
    IF ch_impl = "rust-recovery"
    THEN rec_chunk_list(ch_size, ch_start, ch_config, ch_nodes, ~ch_reverse)
    ELSE acc_chunk_list(ch_size, ch_start, ch_config, ~ch_reverse)

\* C13: chunk coverage. With start < image size and chunk_size > 0 every chunk
\* lies inside [start, image_size), every byte of [start, image_size) is in some
\* chunk, and the reverse scan has the chunks of the forward scan in the opposite
\* order.
C13_ChunkCoverage ==
    (ch_pc = "listed" /\ ch_start < ch_size /\ ch_config.chunk_size > 0) =>
        LET other == OtherDirection
            covered == UNION {ChunkBytes(ch_chunks[i]) : i \in DOMAIN ch_chunks}
        IN  /\ \A i \in DOMAIN ch_chunks : ch_chunks[i].size > 0
            /\ covered = ch_start..(ch_size - 1)
            /\ Len(other) = Len(ch_chunks)
            /\ \A i \in DOMAIN ch_chunks : ch_chunks[i] = other[Len(ch_chunks) + 1 - i]
            /\ \A i \in DOMAIN ch_chunks :
                  i < Len(ch_chunks) =>
                      IF ch_reverse THEN ch_chunks[i].offset > ch_chunks[i + 1].offset
                      ELSE ch_chunks[i].offset < ch_chunks[i + 1].offset

\* a reverse scan of several chunks that two NUMA nodes cannot share equally
C13_Witness ==
    /\ ch_pc = "listed"
    /\ ch_impl = "rust-recovery"
    /\ ch_reverse
    /\ ch_nodes = 2
    /\ ch_start > 0
    /\ ch_config.chunk_size > 0
    /\ Len(ch_chunks) = 3

\* C14: chunk shape. Two consecutive chunks of the list share exactly
\* overlap_size bytes, and every chunk but the last has the length of the first.
C14_ChunkShape ==
    (ch_pc = "listed" /\ ~ch_reverse) =>
        /\ \A i \in DOMAIN ch_chunks :
              i < Len(ch_chunks) =>
                 ch_chunks[i].offset + ch_chunks[i].size - ch_chunks[i + 1].offset
                    = ch_config.overlap_size
        /\ \A i \in DOMAIN ch_chunks :
              i < Len(ch_chunks) => ch_chunks[i].size = ch_chunks[1].size

\* C15: chunk alignment. Every base_offset of the chunk list is a multiple of 64.
C15_ChunkAligned ==
    (ch_pc = "listed" /\ ch_impl = "rust-recovery") =>
        \A i \in DOMAIN ch_chunks : ch_chunks[i].offset % 64 = 0

(***************************************************************************)
(* rust-recovery: scanner/parallel.rs, the end of scan_streaming: flatten, *)
(* deduplicate_links, the confidence filter and the sort by offset         *)
(***************************************************************************)
\* what scan_chunk_with_matcher finds in the chunk at offset off: nothing or one
\* link, of either video, with or without a title, of either confidence
FoundChoices(off) ==
    {<<>>} \cup
    {<<[video_id |-> v, title |-> t, confidence |-> c, offset |-> off]>> :
        v \in {"dQw4w9WgXcQ", "9bZkp7q19f0"}, t \in BOOLEAN, c \in {5, 10}}

\* all_links: the per-chunk results in the order of the chunk list
all_links_of(found, reverse) == IF reverse THEN Reverse(found) ELSE found

DedupInit ==
    /\ dd_found \in [1..MaxFound -> UNION {FoundChoices(off) : off \in 1..MaxFound}]
    /\ \A i \in 1..MaxFound : dd_found[i] \in FoundChoices(i)
    /\ dd_config \in [deduplicate : BOOLEAN, min_confidence : {0, 7}]
    /\ dd_reverse \in BOOLEAN
    /\ dd_pc = "collected"
    /\ dd_links = <<>>

\* lines 237-243: flatten and, if config.deduplicate, deduplicate_links
FlattenDedup ==
    /\ dd_pc = "collected"
    /\ LET links == Flatten(all_links_of(dd_found, dd_reverse))
       IN  dd_links' \in IF dd_config.deduplicate THEN deduplicate_links(links)
                         ELSE {links}
    /\ dd_pc' = "deduped"
    /\ UNCHANGED <<dd_found, dd_config, dd_reverse, nonDedupVars>>

\* lines 245-258: the confidence filter, the sort by offset and the return
FilterSort ==
    /\ dd_pc = "deduped"
    /\ dd_links' = SortByOffset(IF dd_config.min_confidence > 0
                                THEN RetainConfident(dd_links, dd_config.min_confidence)
                                ELSE dd_links)
    /\ dd_pc' = "done"
    /\ UNCHANGED <<dd_found, dd_config, dd_reverse, nonDedupVars>>

NextDedup == FlattenDedup \/ FilterSort

InitDedup ==
    /\ DedupInit /\ ScanIdle /\ AccIdle /\ CkptIdle /\ MgrIdle /\ ResumeIdle
    /\ SolverIdle /\ ExfatIdle /\ SliceIdle /\ ChunkIdle /\ HotIdle /\ BootIdle
    /\ EntryIdle /\ FindIdle

SpecDedup == InitDedup /\ [][NextDedup]_vars

\* the list deduplicate_links was given
DedupInput == Flatten(all_links_of(dd_found, dd_reverse))

\* positions of the input that hold the identifier v
Candidates(v) == {n \in DOMAIN DedupInput : DedupInput[n].video_id = v}

\* the candidates of the preferred kind: the titled ones if there are any
Preferred(v) ==
    IF \E n \in Candidates(v) : DedupInput[n].title
    THEN {n \in Candidates(v) : DedupInput[n].title}
    ELSE Candidates(v)

\* the first position among the preferred candidates of the highest confidence
Winner(v) ==
    CHOOSE n \in Preferred(v) :
        /\ \A m \in Preferred(v) : DedupInput[m].confidence <= DedupInput[n].confidence
        /\ \A m \in Preferred(v) :
              DedupInput[m].confidence = DedupInput[n].confidence => n <= m

\* C16: global deduplication. After deduplicate_links one token is left per
\* identifier: a titled one if the identifier has a titled token, of the highest
\* confidence among those of that kind, and the first in input order among equals.
C16_DedupKeepsBest ==
    (dd_pc = "deduped" /\ dd_config.deduplicate) =>
        /\ {dd_links[k].video_id : k \in DOMAIN dd_links}
              = {DedupInput[n].video_id : n \in DOMAIN DedupInput}
        /\ \A j, k \in DOMAIN dd_links :
              dd_links[j].video_id = dd_links[k].video_id => j = k
        /\ \A k \in DOMAIN dd_links :
              dd_links[k] = DedupInput[Winner(dd_links[k].video_id)]

\* three tokens of one identifier: an untitled one and two titled ones of equal
\* confidence at different offsets
C16_Witness ==
    /\ dd_pc = "deduped"
    /\ dd_config.deduplicate
    /\ Len(DedupInput) = 3
    /\ Len(dd_links) = 1
    /\ ~DedupInput[1].title /\ DedupInput[1].confidence = 10
    /\ DedupInput[2].title /\ DedupInput[2].confidence = 5
    /\ DedupInput[3].title /\ DedupInput[3].confidence = 5

\* the final lists the scan of the same image can return in the other direction
OtherDirectionLinks ==
    LET links == Flatten(all_links_of(dd_found, ~dd_reverse))
        deduped == IF dd_config.deduplicate THEN deduplicate_links(links) ELSE {links}
    IN  {SortByOffset(IF dd_config.min_confidence > 0
                      THEN RetainConfident(d, dd_config.min_confidence)
                      ELSE d) : d \in deduped}

\* C17: reverse-order invariance. The final token list holds the same tokens
\* (identifier, offset, title, confidence) as the scan of the same image with the
\* same configuration in the other direction.
C17_ReverseInvariant ==
    dd_pc = "done" =>
        \E other \in OtherDirectionLinks : Range(other) = Range(dd_links)

(***************************************************************************)
(* Hot fragments: scan_chunk_with_matcher (rust-recovery) and the chunk    *)
(* closure of scan_file_streaming (accelerator)                            *)
(***************************************************************************)
\* the floor of scan_chunk_with_matcher: target_score > 20.0
HOT_FLOOR == 20
\* the floor of scan_file_streaming: target_score > 10.0
ACC_HOT_FLOOR == 10

\* chunk_data of n bytes: zero bytes and '{' bytes
ChunkData(n) == [1..n -> {0, 121, 123, 125, 208}]

\* is_empty of scan_chunk_with_matcher: whole blocks are examined by
\* scan_block_avx2_asm, and only when AVX2 is detected; the bytes after the last
\* whole block are examined one by one
is_empty(chunk_data, avx2) ==
    LET whole == (Len(chunk_data) \div BLOCK_SIZE) * BLOCK_SIZE
    IN  /\ ~(avx2 /\ \E k \in 1..whole : chunk_data[k] # 0)
        /\ ~(\E k \in (whole + 1)..Len(chunk_data) : chunk_data[k] # 0)

\* the bytes scan_block_avx2_asm marks in its hot masks: 'y', 'h', '{', 'v', '/'
hot_symbols == {121, 104, 123, 118, 47}

\* the bytes '{', '}', '[', ']'
json_brackets == {123, 125, 91, 93}

\* the bytes 0xD0 ..= 0xDF
cyrillic_lead == 208..223

\* json_markers of scan_chunk_with_matcher: the whole blocks add the bits of the
\* hot masks, and only when AVX2 is detected; the bytes after the last whole
\* block add the brackets
json_markers(chunk_data, avx2) ==
    LET whole == (Len(chunk_data) \div BLOCK_SIZE) * BLOCK_SIZE
    IN  (IF avx2 THEN Cardinality({k \in 1..whole : chunk_data[k] \in hot_symbols})
         ELSE 0)
        + Cardinality({k \in (whole + 1)..Len(chunk_data) :
                          chunk_data[k] \in json_brackets})

\* cyrillic_count of scan_chunk_with_matcher: counted in the bytes after the
\* last whole block only
cyrillic_count(chunk_data) ==
    LET whole == (Len(chunk_data) \div BLOCK_SIZE) * BLOCK_SIZE
    IN  Cardinality({k \in (whole + 1)..Len(chunk_data) :
                        chunk_data[k] \in cyrillic_lead})

\* the scores calculate_fragment_score / calculate_target_score can return
Scores == {0, ACC_HOT_FLOOR, ACC_HOT_FLOOR + 1, HOT_FLOOR, HOT_FLOOR + 1}

HotInit ==
    /\ hf_impl \in {"rust-recovery", "accelerator"}
    /\ \E n \in 0..MaxChunkBytes : hf_chunk_data \in ChunkData(n)
    /\ hf_youtube_count \in {0, 1}
    \* a link is matched in text, never in zero bytes
    /\ hf_youtube_count > 0 => \E k \in DOMAIN hf_chunk_data : hf_chunk_data[k] # 0
    /\ hf_target_score \in Scores
    /\ hf_avx2 \in BOOLEAN
    /\ hf_hot_cb \in BOOLEAN
    /\ hf_pc = "scan"
    /\ hf_hot = FALSE
    /\ hf_json_markers = 0
    /\ hf_cyrillic_count = 0

\* scan_chunk_with_matcher: hot_fragment is Some
RecHotFragment ==
    /\ hf_impl = "rust-recovery"
    /\ hf_pc = "scan"
    /\ hf_hot' = (hf_target_score > HOT_FLOOR /\ ~is_empty(hf_chunk_data, hf_avx2))
    /\ hf_json_markers' = json_markers(hf_chunk_data, hf_avx2)
    /\ hf_cyrillic_count' = cyrillic_count(hf_chunk_data)
    /\ hf_pc' = "done"
    /\ UNCHANGED <<hf_impl, hf_chunk_data, hf_youtube_count, hf_target_score, hf_avx2,
                   hf_hot_cb, nonHotVars>>

\* the chunk closure of scan_file_streaming: hot_cb(fragment) is called
AccHotFragment ==
    /\ hf_impl = "accelerator"
    /\ hf_pc = "scan"
    /\ hf_hot' = (hf_youtube_count > 0 /\ hf_hot_cb /\ hf_target_score > ACC_HOT_FLOOR)
    /\ hf_pc' = "done"
    /\ UNCHANGED <<hf_json_markers, hf_cyrillic_count>>
    /\ UNCHANGED <<hf_impl, hf_chunk_data, hf_youtube_count, hf_target_score, hf_avx2,
                   hf_hot_cb, nonHotVars>>

NextHot == RecHotFragment \/ AccHotFragment

InitHot ==
    /\ HotInit /\ ScanIdle /\ AccIdle /\ CkptIdle /\ MgrIdle /\ ResumeIdle
    /\ SolverIdle /\ ExfatIdle /\ SliceIdle /\ ChunkIdle /\ DedupIdle /\ BootIdle
    /\ EntryIdle /\ FindIdle

SpecHot == InitHot /\ [][NextHot]_vars

\* C18: hot-fragment emission condition. A HotFragment is produced for a chunk
\* only when the chunk's score is strictly greater than 20 and the chunk holds a
\* non-zero byte.
C18_HotAboveFloor ==
    (hf_pc = "done" /\ hf_hot) =>
        /\ hf_target_score > 20
        /\ \E k \in DOMAIN hf_chunk_data : hf_chunk_data[k] # 0

(***************************************************************************)
(* exfat.rs of both crates: parse_boot_sector_at and find_boot_sector      *)
(***************************************************************************)
RECURSIVE Pow2(_)
Pow2(n) == IF n = 0 THEN 1 ELSE 2 * Pow2(n - 1)

MAX_CLUSTER_SIZE == 32 * 1024 * 1024

\* the bytes at a sector that does not hold the name "EXFAT   "
NoBootSector == [name |-> FALSE, bytes_per_sector_shift |-> 0,
                 sectors_per_cluster_shift |-> 0, fat_offset_sectors |-> 0,
                 cluster_heap_offset_sectors |-> 0]

\* the fields of a sector that holds the name
BootSectors ==
    [name : {TRUE}, bytes_per_sector_shift : {8, 9, 12},
     sectors_per_cluster_shift : {0, 16}, fat_offset_sectors : {0, 1},
     cluster_heap_offset_sectors : {0, 2}]

\* the sector at offset off of the image; only the sectors at 0 and 512 can hold
\* a boot sector in the images of the model
sector_at(sectors, off) == IF off \in DOMAIN sectors THEN sectors[off] ELSE NoBootSector

\* rust-recovery parse_boot_sector_at
parse_boot_sector_at(data_len, sectors, bs_offset) ==
    LET bs == sector_at(sectors, bs_offset)
        sector_size == Pow2(bs.bytes_per_sector_shift)
        cluster_size == sector_size * Pow2(bs.sectors_per_cluster_shift)
        fat_offset == bs.fat_offset_sectors * sector_size + bs_offset
        cluster_heap_offset == bs.cluster_heap_offset_sectors * sector_size + bs_offset
    IN  IF data_len < bs_offset + 120 THEN None
        ELSE IF ~bs.name THEN None
        ELSE IF bs.bytes_per_sector_shift \notin 9..12 THEN None
        ELSE IF bs.sectors_per_cluster_shift > 25 THEN None
        ELSE IF cluster_size = 0 \/ cluster_size > MAX_CLUSTER_SIZE THEN None
        ELSE IF fat_offset = 0 \/ cluster_heap_offset = 0 THEN None
        ELSE Some([sector_size |-> sector_size, cluster_size |-> cluster_size,
                   fat_offset |-> fat_offset,
                   cluster_heap_offset |-> cluster_heap_offset,
                   boot_sector_offset |-> bs_offset])

\* accelerator parse_boot_sector_at: the offsets are computed before the cluster
\* size is tested
acc_parse_boot_sector_at(data_len, sectors, bs_offset) ==
    LET bs == sector_at(sectors, bs_offset)
        sector_size == Pow2(bs.bytes_per_sector_shift)
        cluster_size == sector_size * Pow2(bs.sectors_per_cluster_shift)
        fat_offset == bs_offset + bs.fat_offset_sectors * sector_size
        cluster_heap_offset == bs_offset + bs.cluster_heap_offset_sectors * sector_size
    IN  IF data_len < bs_offset + 120 THEN None
        ELSE IF ~bs.name THEN None
        ELSE IF bs.bytes_per_sector_shift < 9 \/ bs.bytes_per_sector_shift > 12 THEN None
        ELSE IF bs.sectors_per_cluster_shift > 25 THEN None
        ELSE IF cluster_size = 0 \/ cluster_size > 32 * 1024 * 1024 THEN None
        ELSE IF fat_offset = 0 \/ cluster_heap_offset = 0 THEN None
        ELSE Some([sector_size |-> sector_size, cluster_size |-> cluster_size,
                   fat_offset |-> fat_offset,
                   cluster_heap_offset |-> cluster_heap_offset,
                   boot_sector_offset |-> bs_offset])

parse_with(impl, data_len, sectors, bs_offset) ==
    IF impl = "rust-recovery" THEN parse_boot_sector_at(data_len, sectors, bs_offset)
    ELSE acc_parse_boot_sector_at(data_len, sectors, bs_offset)

\* the for loop of find_boot_sector from offset on, in steps of 512
RECURSIVE search_boot_sector(_, _, _, _)
search_boot_sector(impl, data_len, sectors, offset) ==
    IF offset >= Min(data_len, 4 * 1024 * 1024) THEN None
    ELSE IF offset + 120 > data_len THEN None
    ELSE LET params == IF sector_at(sectors, offset).name
                       THEN parse_with(impl, data_len, sectors, offset)
                       ELSE None
         IN  IF params.some THEN params
             ELSE search_boot_sector(impl, data_len, sectors, offset + 512)

\* find_boot_sector (the same text in both crates)
find_boot_sector(impl, data_len, sectors) ==
    LET params == parse_with(impl, data_len, sectors, 0)
    IN  IF params.some THEN params
        ELSE search_boot_sector(impl, data_len, sectors, 512)

BootInit ==
    /\ bp_impl \in {"rust-recovery", "accelerator"}
    /\ bp_data_len \in {0, 119, 120, 632, 1024, 8192}
    /\ bp_sectors \in [{0, 512} -> BootSectors \cup {NoBootSector}]
    /\ bp_pc = "find"
    /\ bp_result = None

FindBootSector ==
    /\ bp_pc = "find"
    /\ bp_result' = find_boot_sector(bp_impl, bp_data_len, bp_sectors)
    /\ bp_pc' = "done"
    /\ UNCHANGED <<bp_impl, bp_data_len, bp_sectors, nonBootVars>>

NextBoot == FindBootSector

InitBoot ==
    /\ BootInit /\ ScanIdle /\ AccIdle /\ CkptIdle /\ MgrIdle /\ ResumeIdle
    /\ SolverIdle /\ ExfatIdle /\ SliceIdle /\ ChunkIdle /\ DedupIdle /\ HotIdle
    /\ EntryIdle /\ FindIdle

SpecBoot == InitBoot /\ [][NextBoot]_vars

\* C19: the ExFatBootParams find_boot_sector returns have a sector_size of 512,
\* 1024, 2048 or 4096, sector_size <= cluster_size <= 32 MiB, positive
\* fat_offset and cluster_heap_offset, and both offsets below the image length.
C19_BootParamsInvariant ==
    (bp_pc = "done" /\ bp_result.some) =>
        LET p == bp_result.value
        IN  /\ p.sector_size \in {512, 1024, 2048, 4096}
            /\ p.sector_size <= p.cluster_size
            /\ p.cluster_size <= 32 * 1024 * 1024
            /\ p.fat_offset > 0
            /\ p.cluster_heap_offset > 0
            /\ p.fat_offset < bp_data_len
            /\ p.cluster_heap_offset < bp_data_len

(***************************************************************************)
(* exfat.rs of both crates: parse_entry_set                                *)
(***************************************************************************)
\* entry type bytes: 0x85, 0xC0, 0xC1 and, for deleted entries, 0x05, 0x40, 0x41
ENTRY_FILE == 133
ENTRY_STREAM == 192
ENTRY_FILENAME == 193
ENTRY_DELETED_FILE == 5
ENTRY_DELETED_STREAM == 64
ENTRY_DELETED_FILENAME == 65
DIRECTORY_ENTRY_SIZE == 32

\* characters of the name that the entries 2 .. total_entries - 1 give, from
\* entry i on: a filename entry holds 15 characters, any other entry ends the name
RECURSIVE collect_filename(_, _, _, _, _)
collect_filename(data_len, entries, i, total_entries, chars_collected) ==
    IF i >= total_entries THEN chars_collected
    ELSE IF i * DIRECTORY_ENTRY_SIZE + DIRECTORY_ENTRY_SIZE > data_len THEN chars_collected
    ELSE IF entries[i].type # ENTRY_FILENAME /\ entries[i].type # ENTRY_DELETED_FILENAME
         THEN chars_collected
    ELSE collect_filename(data_len, entries, i + 1, total_entries,
                          Min(entries[1].name_length, chars_collected + 15))

\* rust-recovery parse_entry_set; entries[i] holds the fields of the 32 bytes at
\* i * 32, and the filename is given by its length
parse_entry_set(data_len, entries) ==
    LET file_type == entries[0].type
        secondary_count == entries[0].secondary_count
        total_entries == 1 + secondary_count
        total_bytes == total_entries * DIRECTORY_ENTRY_SIZE
        se_type == entries[1].type
    IN  IF data_len < DIRECTORY_ENTRY_SIZE THEN None
        ELSE IF file_type # ENTRY_FILE /\ file_type # ENTRY_DELETED_FILE THEN None
        ELSE IF secondary_count < 2 THEN None
        ELSE IF data_len < total_bytes THEN None
        ELSE IF se_type # ENTRY_STREAM /\ se_type # ENTRY_DELETED_STREAM THEN None
        ELSE IF entries[1].first_cluster < 2 /\ entries[1].file_size > 0 THEN None
        ELSE Some([is_deleted |-> file_type = ENTRY_DELETED_FILE,
                   filename |-> collect_filename(data_len, entries, 2, total_entries, 0),
                   size |-> entries[1].file_size,
                   first_cluster |-> entries[1].first_cluster,
                   total_entries |-> total_entries])

\* accelerator parse_entry_set: the two tests on secondary_count are one condition
acc_parse_entry_set(data_len, entries) ==
    LET file_type == entries[0].type
        secondary_count == entries[0].secondary_count
        total_entries == 1 + secondary_count
        total_bytes == total_entries * DIRECTORY_ENTRY_SIZE
        se_type == entries[1].type
    IN  IF data_len < DIRECTORY_ENTRY_SIZE THEN None
        ELSE IF file_type # ENTRY_FILE /\ file_type # ENTRY_DELETED_FILE THEN None
        ELSE IF data_len < total_bytes \/ secondary_count < 2 THEN None
        ELSE IF se_type # ENTRY_STREAM /\ se_type # ENTRY_DELETED_STREAM THEN None
        ELSE IF entries[1].first_cluster < 2 /\ entries[1].file_size > 0 THEN None
        ELSE Some([is_deleted |-> file_type = ENTRY_DELETED_FILE,
                   filename |-> collect_filename(data_len, entries, 2, total_entries, 0),
                   size |-> entries[1].file_size,
                   first_cluster |-> entries[1].first_cluster,
                   total_entries |-> total_entries])

\* the buffers: a primary entry, a second entry and two more
EntrySets ==
    {[i \in 0..3 |->
        CASE i = 0 -> [type |-> t0, secondary_count |-> sc]
          [] i = 1 -> [type |-> t1, name_length |-> nl, first_cluster |-> fc,
                       file_size |-> fs]
          [] i = 2 -> [type |-> t2]
          [] OTHER -> [type |-> t3]] :
        t0 \in {ENTRY_FILE, ENTRY_DELETED_FILE, ENTRY_STREAM, 0},
        sc \in 0..MaxSecondary,
        t1 \in {ENTRY_STREAM, ENTRY_DELETED_STREAM, ENTRY_FILENAME},
        nl \in {0, 20}, fc \in {0, 2}, fs \in {0, 10},
        t2 \in {ENTRY_FILENAME, ENTRY_DELETED_FILENAME, ENTRY_STREAM, 0},
        t3 \in {ENTRY_FILENAME, 0}}

EntryInit ==
    /\ es_impl \in {"rust-recovery", "accelerator"}
    /\ es_data_len \in {0, 31, 32, 64, 95, 96, 128}
    /\ es_entries \in EntrySets
    /\ es_pc = "parse"
    /\ es_result = None

ParseEntrySet ==
    /\ es_pc = "parse"
    /\ es_result' = IF es_impl = "rust-recovery"
                    THEN parse_entry_set(es_data_len, es_entries)
                    ELSE acc_parse_entry_set(es_data_len, es_entries)
    /\ es_pc' = "done"
    /\ UNCHANGED <<es_impl, es_data_len, es_entries, nonEntryVars>>

NextEntry == ParseEntrySet

InitEntry ==
    /\ EntryInit /\ ScanIdle /\ AccIdle /\ CkptIdle /\ MgrIdle /\ ResumeIdle
    /\ SolverIdle /\ ExfatIdle /\ SliceIdle /\ ChunkIdle /\ DedupIdle /\ HotIdle
    /\ BootIdle /\ FindIdle

SpecEntry == InitEntry /\ [][NextEntry]_vars

\* C20: parse_entry_set returns an entry only for a well-formed set: a primary
\* entry 0x85 or 0x05, at least 3 entries that all fit in the buffer, a stream
\* extension (0xC0/0x40) as entry 1 and a filename entry (0xC1/0x41) as entry 2.
C20_EntryOnlyIfWellFormed ==
    (es_pc = "done" /\ es_result.some) =>
        /\ es_entries[0].type \in {133, 5}
        /\ 1 + es_entries[0].secondary_count >= 3
        /\ (1 + es_entries[0].secondary_count) * 32 <= es_data_len
        /\ es_entries[1].type \in {192, 64}
        /\ es_entries[2].type \in {193, 65}

(***************************************************************************)
(* rust-recovery: simd_search.rs find_pattern_simd and simd_search_asm.rs  *)
(* find_pattern_avx2_asm                                                   *)
(***************************************************************************)
Least(S) == CHOOSE x \in S : \A y \in S : x <= y

\* &haystack[pos..pos + needle_len] == needle, pos counted from 0
matches_at(haystack, needle, pos) ==
    /\ pos + Len(needle) <= Len(haystack)
    /\ \A k \in 1..Len(needle) : haystack[pos + k] = needle[k]

\* haystack[i..].windows(needle_len).position(..).map(|pos| i + pos)
windows_position(haystack, needle, i) ==
    LET hits == {p \in i..(Len(haystack) - Len(needle)) : matches_at(haystack, needle, p)}
    IN  IF hits = {} THEN None ELSE Some(Least(hits))

\* find_pattern_scalar
find_pattern_scalar(haystack, needle) == windows_position(haystack, needle, 0)

\* vpmovmskb of a byte: its top bit
top_bit(b) == b >= 128

\* the while loop of find_pattern_avx2_asm from i on: mask1 is the movemask of
\* cmp1 (the bytes equal to needle[0]), mask2 is the movemask of chunk2 (the top
\* bits of the bytes themselves, line 50)
RECURSIVE avx2_asm_from(_, _, _)
avx2_asm_from(haystack, needle, i) ==
    IF i + 2 * AVX_WIDTH <= Len(haystack) - Len(needle)
    THEN LET mask1 == {p \in i..(i + AVX_WIDTH - 1) : haystack[p + 1] = needle[1]}
             mask2 == {p \in (i + AVX_WIDTH)..(i + 2 * AVX_WIDTH - 1) :
                          top_bit(haystack[p + 1])}
             hits == {p \in mask1 \cup mask2 : matches_at(haystack, needle, p)}
         IN  IF hits # {} THEN Some(Least(hits))
             ELSE avx2_asm_from(haystack, needle, i + 2 * AVX_WIDTH)
    ELSE windows_position(haystack, needle, i)

\* find_pattern_avx2_asm
find_pattern_avx2_asm(haystack, needle) ==
    IF needle = <<>> \/ Len(haystack) < Len(needle) THEN None
    ELSE avx2_asm_from(haystack, needle, 0)

\* the while loop of find_pattern_sse42 from i on
RECURSIVE sse42_from(_, _, _)
sse42_from(haystack, needle, i) ==
    IF i + SSE_WIDTH <= Len(haystack) - Len(needle)
    THEN LET mask == {p \in i..(i + SSE_WIDTH - 1) : haystack[p + 1] = needle[1]}
             hits == {p \in mask : matches_at(haystack, needle, p)}
         IN  IF hits # {} THEN Some(Least(hits))
             ELSE sse42_from(haystack, needle, i + SSE_WIDTH)
    ELSE windows_position(haystack, needle, i)

\* find_pattern_sse42
find_pattern_sse42(haystack, needle) == sse42_from(haystack, needle, 0)

\* find_pattern_simd; cpu is the best instruction set detected
find_pattern_simd(haystack, needle, cpu) ==
    IF needle = <<>> \/ Len(haystack) < Len(needle) THEN None
    ELSE IF Len(needle) < SIMD_MIN_NEEDLE THEN find_pattern_scalar(haystack, needle)
    ELSE IF cpu = "avx2" THEN find_pattern_avx2_asm(haystack, needle)
    ELSE IF cpu = "sse4.2" THEN find_pattern_sse42(haystack, needle)
    ELSE find_pattern_scalar(haystack, needle)

\* byte strings of n bytes: 'y' and a byte with the top bit set
ByteStrings(n) == [1..n -> {121, 208}]

FindInit ==
    /\ \E n \in 0..MaxHaystack : fp_haystack \in ByteStrings(n)
    /\ \E n \in 0..MaxNeedle : fp_needle \in ByteStrings(n)
    /\ fp_cpu \in {"avx2", "sse4.2", "none"}
    /\ fp_pc = "call"
    /\ fp_result = None

FindPatternSimd ==
    /\ fp_pc = "call"
    /\ fp_result' = find_pattern_simd(fp_haystack, fp_needle, fp_cpu)
    /\ fp_pc' = "done"
    /\ UNCHANGED <<fp_haystack, fp_needle, fp_cpu, nonFindVars>>

NextFind == FindPatternSimd

InitFind ==
    /\ FindInit /\ ScanIdle /\ AccIdle /\ CkptIdle /\ MgrIdle /\ ResumeIdle
    /\ SolverIdle /\ ExfatIdle /\ SliceIdle /\ ChunkIdle /\ DedupIdle /\ HotIdle
    /\ BootIdle /\ EntryIdle

SpecFind == InitFind /\ [][NextFind]_vars

\* the offsets at which the needle occurs in the haystack
Occurs == {p \in 0..Len(fp_haystack) : matches_at(fp_haystack, fp_needle, p)}

\* C21: find_pattern_simd returns the smallest offset at which a non-empty needle
\* occurs in the haystack, and none when it does not occur, on every dispatch
\* path.
C21_FindsFirst ==
    (fp_pc = "done" /\ fp_needle # <<>>) =>
        fp_result = IF Occurs = {} THEN None ELSE Some(Least(Occurs))

\* C26: DP tie-break. When the predecessor find_best_path links to a fragment
\* i and another eligible predecessor give equal candidate scores, the linked
\* one has the smaller offset, or the same offset and no lower edge score.
C26_TieBreakEarliest ==
    \A i \in DOMAIN sv_pool :
        LET j == Tables(sv_pool, sv_weights).previous[i]
            ej == edge_score(sv_pool[j], sv_pool[i], sv_weights).score
        IN  j # 0 =>
               \A k \in Eligible(i) \ {j} :
                   LET ek == edge_score(sv_pool[k], sv_pool[i], sv_weights).score
                   IN  sv_best[k] + ek = sv_best[j] + ej =>
                          \/ sv_pool[j].offset < sv_pool[k].offset
                          \/ /\ sv_pool[j].offset = sv_pool[k].offset
                             /\ ej >= ek

\* C27: assembler loop bound. Every round of the loop takes at least one
\* fragment out of the pool, so the loop ends after at most as many rounds as
\* there are fragments; the call returns at most max(cap, 1) streams (cap 3
\* when none is given), and when it returns fewer streams than the cap every
\* input fragment is in one of them.
C27_LoopBound ==
    [][/\ (sv_pc = "loop" /\ sv_pc' = "loop")
              => /\ Len(sv_remaining') < Len(sv_remaining)
                 /\ Len(sv_streams') = Len(sv_streams) + 1
       /\ sv_pc' = "done"
              => /\ Len(sv_streams') <= Max(StreamCap(sv_max_streams'), 1)
                 /\ Len(sv_streams') < StreamCap(sv_max_streams')
                        => Range(StreamIds') = DOMAIN sv_fragments']_vars

\* three fragments returned in two streams under the default cap of 3
C27_Witness ==
    /\ sv_pc = "done"
    /\ sv_max_streams = None
    /\ Len(sv_fragments) = 3
    /\ Len(sv_streams) = 2
    /\ sv_remaining = <<>>

\* C28: per-chunk accumulation covers the whole chunk. The json_markers of an
\* emitted HotFragment is the number of bytes of the chunk that are one of
\* '{', '}', '[', ']', and its Cyrillic count is taken over the whole chunk.
C28_WholeChunkCounts ==
    (hf_pc = "done" /\ hf_impl = "rust-recovery" /\ hf_hot) =>
        /\ hf_json_markers
               = Cardinality({k \in DOMAIN hf_chunk_data :
                                 hf_chunk_data[k] \in json_brackets})
        /\ hf_cyrillic_count
               = Cardinality({k \in DOMAIN hf_chunk_data :
                                 hf_chunk_data[k] \in cyrillic_lead})

\* C29: confidence filter after dedup. With deduplicate set and min_confidence
\* above 0, every identifier with a matched occurrence of confidence at least
\* min_confidence is in the final token list.
C29_ConfidentIdentifierKept ==
    (dd_pc = "done" /\ dd_config.deduplicate /\ dd_config.min_confidence > 0) =>
        \A n \in DOMAIN DedupInput :
            DedupInput[n].confidence >= dd_config.min_confidence =>
                \E k \in DOMAIN dd_links : dd_links[k].video_id = DedupInput[n].video_id

\* the input in offset order, as the first round of the assembler sees it
SortedInput == SortByOffset(sv_fragments)

\* pairs of places of SortedInput that hold fragments of one file type with no
\* fragment of that type between them
SameTypeNeighbours ==
    {<<a, b>> \in (DOMAIN SortedInput) \X (DOMAIN SortedInput) :
        /\ a < b
        /\ SortedInput[a].file_type = SortedInput[b].file_type
        /\ \A m \in (a + 1)..(b - 1) :
              SortedInput[m].file_type # SortedInput[a].file_type}

\* fragments of two file types, one of the other type lying between two of the
\* same type; same-type neighbours have an edge, cross-type pairs have none
InterleavedInput ==
    /\ \E a, b, c \in DOMAIN SortedInput :
          /\ a < b /\ b < c
          /\ SortedInput[a].file_type = SortedInput[c].file_type
          /\ SortedInput[a].file_type # SortedInput[b].file_type
    /\ \A p \in SameTypeNeighbours :
          edge_score(SortedInput[p[1]], SortedInput[p[2]], sv_weights).defined
    /\ \A a, b \in DOMAIN SortedInput :
          (a < b /\ SortedInput[a].file_type # SortedInput[b].file_type)
              => ~edge_score(SortedInput[a], SortedInput[b], sv_weights).defined

\* C22: for interleaved fragments of two file types, with an edge between
\* same-type neighbours and none across types, a cap of 2 gives exactly two
\* streams that together hold every input fragment once, each of one file type.
C22_SeparatesInterleaved ==
    (sv_pc = "done" /\ sv_max_streams = Some(2) /\ InterleavedInput) =>
        /\ Len(sv_streams) = 2
        /\ Range(StreamIds) = DOMAIN sv_fragments
        /\ Len(StreamIds) = Len(sv_fragments)
        /\ \A n \in DOMAIN sv_streams :
              \A a, b \in DOMAIN sv_streams[n].fragments :
                  sv_streams[n].fragments[a].file_type
                      = sv_streams[n].fragments[b].file_type

\* the clusters of the file in reading order, n at most: the FAT chain from
\* cluster c up to its end-of-chain mark, or c, c + 1, .. with no_fat_chain
RECURSIVE ChainFrom(_, _)
ChainFrom(c, n) ==
    IF n = 0 \/ c < 2 \/ c >= FAT_EOC_MIN THEN <<>>
    ELSE IF ex_no_fat_chain THEN <<c>> \o ChainFrom(c + 1, n - 1)
    ELSE IF c \in DOMAIN ex_fat THEN <<c>> \o ChainFrom(ex_fat[c], n - 1)
    ELSE <<c>>

\* the clusters a file of the given size is read from
FileChain(size) ==
    IF ex_no_fat_chain
    THEN ChainFrom(ex_first_cluster,
             IF ex_params.cluster_size = 0 THEN 0
             ELSE (size + ex_params.cluster_size - 1) \div ex_params.cluster_size)
    ELSE ChainFrom(ex_first_cluster, Cardinality(DOMAIN ex_fat) + 1)

\* the chain lies inside the image: its clusters are clusters of the volume, all
\* different, each wholly inside the image; a FAT chain has its entries inside
\* the image and ends with an end-of-chain mark
ChainInside(chain) ==
    /\ \A k \in DOMAIN chain :
          /\ chain[k] <= ex_params.cluster_count + 1
          /\ ex_params.cluster_heap_offset
                 + (chain[k] - 1) * ex_params.cluster_size <= ex_data_len
          /\ ~ex_no_fat_chain =>
                /\ chain[k] \in DOMAIN ex_fat
                /\ ex_params.fat_offset + 4 * chain[k] + 4 <= ex_data_len
    /\ \A a, b \in DOMAIN chain : a # b => chain[a] # chain[b]
    /\ (~ex_no_fat_chain /\ chain # <<>>) => ex_fat[chain[Len(chain)]] >= FAT_EOC_MIN

\* min(remaining, cluster_size) bytes of each cluster from the k-th on, in
\* chain order
RECURSIVE ChainBytes(_, _, _)
ChainBytes(chain, k, remaining) ==
    IF k > Len(chain) \/ remaining = 0 THEN <<>>
    ELSE LET start == ex_params.cluster_heap_offset
                          + (chain[k] - 2) * ex_params.cluster_size
             n == Min(remaining, ex_params.cluster_size)
         IN  Offsets(start, start + n) \o ChainBytes(chain, k + 1, remaining - n)

\* C23 as stated: for a chain inside the image the content is the bytes of the
\* clusters in chain order, truncated to file_size.
C23_ChainToFileSize ==
    (ex_pc = "done" /\ ex_first_cluster >= 2 /\ ChainInside(FileChain(ex_file_size)))
        => ex_content = ChainBytes(FileChain(ex_file_size), 1, ex_file_size)

\* C23: for a chain inside the image, extract_file_content returns the bytes
\* of the clusters in chain order (the FAT chain, or first_cluster,
\* first_cluster + 1, .. with no_fat_chain, whatever the FAT holds), truncated
\* to min(file_size, MAX_EXTRACT_SIZE).
C23_ChainContent ==
    (/\ ex_pc = "done"
     /\ ex_first_cluster >= 2
     /\ ChainInside(FileChain(actual_size(ex_file_size))))
        => ex_content = ChainBytes(FileChain(actual_size(ex_file_size)), 1,
                                   actual_size(ex_file_size))

\* a file larger than the cap whose FAT chain 3 -> 2 -> end runs against the
\* cluster numbers: cluster 3 was read first, then one byte of cluster 2
C23_Witness ==
    /\ ex_pc = "done"
    /\ ~ex_no_fat_chain
    /\ ex_first_cluster = 3
    /\ ex_fat[3] = 2 /\ ex_fat[2] >= FAT_EOC_MIN
    /\ ex_params.cluster_size = 2
    /\ ex_file_size > MAX_EXTRACT_SIZE
    /\ ChainInside(FileChain(actual_size(ex_file_size)))
    /\ ex_content = <<22, 23, 20>>

(***************************************************************************)
(* Claims about scan_streaming and the progress bus                        *)
(***************************************************************************)
Panicked == {i \in ChunkIds : outcome[i].state = "panic"}

\* every event handed to the channel so far that was not dropped by a close
Emitted == delivered \o chan

EventsOfKind(kind) == {k \in DOMAIN Emitted : Emitted[k].kind = kind}

\* the links of every chunk but p, in chunk order
LinksWithout(p) ==
    [i \in ChunkIds |-> IF i = p \/ outcome[i].state # "ok" THEN <<>> ELSE outcome[i].links]

\* C1: panic isolation. When exactly one chunk's task panicked and the receiver
\* was never closed, the scan has returned Ok: its result is what flattening,
\* deduplicating, filtering and sorting the links of all the other chunks gives
\* (every one of their links itself when the configuration neither deduplicates
\* nor filters), and exactly one ChunkError event was emitted, with the offset
\* of the panicking chunk.
C1_PanicIsolation ==
    (scan_pc = "done" /\ rx # "closed") =>
        \A p \in ChunkIds :
            Panicked = {p} =>
                /\ scan_result.state = "ok"
                /\ scan_result \in ScanResults(LinksWithout(p), config,
                                               disk_size - start_offset, disk_size,
                                               start_offset)
                /\ (~config.deduplicate /\ config.min_confidence = 0) =>
                       \A i \in ChunkIds \ {p} :
                           Range(outcome[i].links) \subseteq Range(scan_result.links)
                /\ Cardinality(EventsOfKind("ChunkError")) = 1
                /\ \A k \in EventsOfKind("ChunkError") : Emitted[k].arg = chunks[p].offset

C1_Witness ==
    /\ scan_pc = "done"
    /\ rx # "closed"
    /\ Len(chunks) >= 2
    /\ Cardinality(Panicked) = 1
    /\ scan_result.state = "ok"
    /\ scan_result.links # <<>>
    /\ \E k \in DOMAIN delivered : delivered[k].kind = "ChunkError"

\* C3: a progress-bus send never blocks a worker. With the channel full and a
\* consumer that stopped receiving without closing, every worker at a send can
\* still take its step.
C3_SendNeverBlocks ==
    (rx = "stalled" /\ Len(chan) = ChannelCapacity) =>
        \A i \in ChunkIds : pc[i] \in SendPcs => ENABLED BlockingSend(i)

\* C4: soft cancellation. Once the receiver is closed no worker at a send is
\* blocked, nothing more is delivered, and the scan goes on to return its
\* result.
C4_SoftCancel ==
    /\ [](rx = "closed" => \A i \in ChunkIds : pc[i] \in SendPcs => ENABLED BlockingSend(i))
    /\ [][rx = "closed" => delivered' = delivered]_vars
    /\ (rx = "closed" ~> (scan_pc = "done" /\ scan_result.state = "ok"))

\* a scan that finished after the receiver was closed while events were still owed
C4_Witness ==
    /\ rx = "closed"
    /\ scan_pc = "done"
    /\ scan_result.state = "ok"
    /\ Len(chunks) >= 2
    /\ delivered # <<>>
    /\ Len(delivered) < 2 * Len(chunks)

\* total_bytes_scanned of run_real_scan: the payloads of the BytesScanned events
RECURSIVE total_bytes_scanned(_)
total_bytes_scanned(events) ==
    IF events = <<>> THEN 0
    ELSE (IF Head(events).kind = "BytesScanned" THEN Head(events).arg ELSE 0)
         + total_bytes_scanned(Tail(events))

\* C24: progress accounting. In a scan from offset 0 whose receiver stays open,
\* the payloads of all BytesScanned events sum to the size of the image.
C24_BytesSumToImage ==
    (scan_pc = "done" /\ rx = "open" /\ start_offset = 0) =>
        total_bytes_scanned(Emitted) = disk_size

\* C25: per-chunk event order. A ChunkCompleted event on the channel belongs to
\* a chunk whose scan has finished, and the HotFragment or ChunkError of that
\* chunk, if any, comes before it.
C25_CompletedAfterScan ==
    \A k \in EventsOfKind("ChunkCompleted") :
        /\ \A i \in ChunkIds :
              chunks[i].offset = Emitted[k].arg => outcome[i].state # "none"
        /\ \A m \in EventsOfKind("HotFragment") \cup EventsOfKind("ChunkError") :
              Emitted[m].arg = Emitted[k].arg => m < k

\* the events the worker of chunk i sends while the receiver is open
SentBy(i) ==
    <<ChunkCompleted(chunks[i].offset), BytesScanned(chunks[i].size)>>
    \o (IF outcome[i].state = "ok" /\ outcome[i].hot
        THEN <<HotFragmentEv(chunks[i].offset)>> ELSE <<>>)
    \o (IF outcome[i].state = "panic" THEN <<ChunkError(chunks[i].offset)>> ELSE <<>>)

AllSent == Flatten([i \in ChunkIds |-> SentBy(i)])

\* C30: pipeline drain. The consumer loop of run_real_scan ends, and when it
\* has ended the scan has returned, the channel is empty and the loop has
\* received every event the workers sent, each once.
C30_PipelineDrain ==
    /\ <>(rx = "ended")
    /\ [](rx = "ended" =>
             /\ scan_pc = "done"
             /\ chan = <<>>
             /\ Len(delivered) = Len(AllSent)
             /\ Range(delivered) = Range(AllSent))

\* the loop has ended after more events than the channel holds, a HotFragment
\* and a ChunkError among them
C30_Witness ==
    /\ rx = "ended"
    /\ Len(chunks) >= 2
    /\ Len(delivered) > 2 * Len(chunks)
    /\ Len(delivered) > ChannelCapacity
    /\ \E k \in DOMAIN delivered : delivered[k].kind = "HotFragment"
    /\ \E k \in DOMAIN delivered : delivered[k].kind = "ChunkError"

====
